---- MODULE Spec2Model ----
(***************************************************************************)
(* Year canvas (YearCanvas component) and the rectangle handlers of the    *)
(* owning App: pan / zoom transform, interaction mode, marquee date-range  *)
(* selection, annotation rectangle draw / move / resize / delete / text    *)
(* edit, and click-versus-drag disambiguation.                             *)
(*                                                                         *)
(* Real numbers (JavaScript numbers) are exact rationals <<n, d>>, d > 0,  *)
(* in lowest terms.  The scale is counted in tenths (0.1 .. 4.0) by the    *)
(* inputs, wheel deltas being multiples of 100 (one wheel notch).          *)
(* Strings holding ISO dates are sequences of character codes, compared    *)
(* as JavaScript compares strings (lexicographically by code unit).        *)
(*                                                                         *)
(* React state is held twice: the variable itself is the latest state (all *)
(* queued updates applied in order), `rendered` is the state of the last   *)
(* committed render, which is what the handlers' closures read.  Discrete  *)
(* events (pointerdown, pointerup, click, dblclick, keydown, blur) are     *)
(* rendered synchronously at the end of the handler; updates made by       *)
(* continuous events (pointermove, pointerenter) are rendered by the       *)
(* separate step Render, which may or may not come before the next event.  *)
(*                                                                         *)
(* The owning App comes in two implementations, both modelled: the one     *)
(* that keeps each profile's data in the browser's local storage (App.tsx) *)
(* and the one that keeps it in a remote store (the App of                 *)
(* src/components/Auth.tsx with the service of part_006); the definitions  *)
(* of the second carry the suffix Remote.                                  *)
(***************************************************************************)
EXTENDS Integers, Sequences, FiniteSets, TLC

\* ------------------------------------------------------------------ bounds
MaxRects == 1
MaxEdits == 1
ViewMaxZooms == 2
ViewMaxPans == 1
RectMaxEdits == 1
RectMaxRects == 1
ClickMaxPans == 3
KeysMaxRects == 1
MaxGridEvents == 5

\* ------------------------------------------------------- exact arithmetic
\* null / undefined: of a value that is a record, a tuple or a date string,
\* and of a value that is an id or another short string (both are falsy).
NULL == <<>>
NoString == ""

AbsInt(i) == IF i < 0 THEN -i ELSE i

RECURSIVE GCD(_, _)
GCD(a, b) == IF b = 0 THEN a ELSE GCD(b, a % b)

Norm(n, d) ==
  LET g == GCD(AbsInt(n), AbsInt(d))
      s == IF d < 0 THEN -1 ELSE 1
  IN  <<(s * n) \div g, (s * d) \div g>>

R(i) == <<i, 1>>
RAdd(a, b) == Norm(a[1] * b[2] + b[1] * a[2], a[2] * b[2])
RSub(a, b) == Norm(a[1] * b[2] - b[1] * a[2], a[2] * b[2])
RMul(a, b) == Norm(a[1] * b[1], a[2] * b[2])
RDiv(a, b) == Norm(a[1] * b[2], a[2] * b[1])
RLt(a, b) == a[1] * b[2] < b[1] * a[2]
RLe(a, b) == a[1] * b[2] <= b[1] * a[2]
RAbs(a) == <<AbsInt(a[1]), a[2]>>
RMin(a, b) == IF RLt(b, a) THEN b ELSE a
RMax(a, b) == IF RLt(a, b) THEN b ELSE a

\* ------------------------------------------------------------- constants
YEAR == 2026
MIN_SCALE == <<1, 10>>
MAX_SCALE == <<4, 1>>
InitialTransform == [x |-> R(50), y |-> R(50), scale |-> <<4, 5>>]
ZoomSensitivity == <<1, 1000>>
ZoomStep == <<1, 5>>
MoveThreshold == 2
MinRectSize == R(10)
MaxChips == 4
DefaultColor == "#ef4444"
ContainerLeft == 0
ContainerTop == 0

\* ---------------------------------------------------------------- inputs
ViewPoints == {[x |-> 0, y |-> 0], [x |-> 4, y |-> 40], [x |-> 40, y |-> 40]}
FewPoints == {[x |-> 0, y |-> 0], [x |-> 40, y |-> 40]}
OnePoint == {[x |-> 40, y |-> 40]}
MovePoints == {[x |-> 0, y |-> 0]}
RectPoints == {[x |-> 0, y |-> 0], [x |-> 8, y |-> 40], [x |-> 40, y |-> 40], [x |-> 48, y |-> 48]}
ClickStart == {[x |-> 0, y |-> 0]}
ClickPoints == {[x |-> 0, y |-> 0], [x |-> 2, y |-> 0], [x |-> 4, y |-> 0]}
FewWheelDeltas == {1000}
WheelDeltas == {-4000, 100, 1000}
PanDeltas == {0, 30}
Cells == {<<1, 9>>, <<6, 10>>, <<6, 16>>}
TwoCells == {<<6, 10>>, <<6, 16>>}
CellParts == {"cell", "chip", "add"}
RectIds == {"r1", "r2"}
Handles == {"nw", "ne", "sw", "se"}
FewHandles == {"se"}
Keys == {"h", "v", "r", "Delete", "Backspace", "Escape"}
Modes == {"pan", "select", "rectangle"}
Buttons == {0, 2}
Texts == {"a"}
MonthIndexes == 0..11
DayColumns == 1..31
GridCells == {<<1, 28>>, <<1, 29>>, <<2, 1>>}
GridRanges == {<<<<2, 5>>, <<2, 7>>>>, <<<<1, 27>>, <<2, 5>>>>, <<<<8, 30>>, <<9, 2>>>>}

\* ------------------------------------------------------------ date utils
\* String(n).padStart(2, '0') as character codes ('0' is 48).
Pad2(n) == IF n < 10 THEN <<48, 48 + n>> ELSE <<48 + (n \div 10), 48 + (n % 10)>>

\* `${YEAR}-${m}-${d}` as character codes ('-' is 45).
formatDateISO(monthIndex, day) ==
  <<48 + (YEAR \div 1000), 48 + ((YEAR \div 100) % 10), 48 + ((YEAR \div 10) % 10),
    48 + (YEAR % 10), 45>> \o Pad2(monthIndex + 1) \o <<45>> \o Pad2(day)

\* JavaScript's a < b on strings: first differing code unit decides, a proper
\* prefix is smaller.
RECURSIVE StrLt(_, _)
StrLt(a, b) ==
  IF b = <<>> THEN FALSE
  ELSE IF a = <<>> THEN TRUE
  ELSE IF Head(a) # Head(b) THEN Head(a) < Head(b)
  ELSE StrLt(Tail(a), Tail(b))

\* new Date(year, monthIndex, day): the day number (days since 1970-01-01)
\* of the date, months and days beyond their range carried over as the
\* Date constructor does (month 12 is January of the next year, day 0 is
\* the last day of the month before).
DayNumber(year, monthIndex, day) ==
  LET yy == year + (monthIndex \div 12)
      mm == (monthIndex % 12) + 1
      y == IF mm <= 2 THEN yy - 1 ELSE yy
      era == y \div 400
      yoe == y - era * 400
      doy == (153 * (IF mm > 2 THEN mm - 3 ELSE mm + 9) + 2) \div 5
      doe == yoe * 365 + (yoe \div 4) - (yoe \div 100) + doy
  IN era * 146097 + doe - 719468 + (day - 1)

\* Date.prototype.getDate() of the date with this day number.
getDate(dayNumber) ==
  LET z == dayNumber + 719468
      era == z \div 146097
      doe == z - era * 146097
      yoe == (doe - (doe \div 1460) + (doe \div 36524) - (doe \div 146096)) \div 365
      doy == doe - (365 * yoe + (yoe \div 4) - (yoe \div 100))
      mp == (5 * doy + 2) \div 153
  IN doy - ((153 * mp + 2) \div 5) + 1

\* Every month given 31 days.
ThirtyOneDays(monthIndex) == 31

\* new Date(YEAR, monthIndex + 1, 0).getDate()
getDaysInMonth(monthIndex) == getDate(DayNumber(YEAR, monthIndex + 1, 0))

isValidDay(monthIndex, day) == day >= 1 /\ day <= getDaysInMonth(monthIndex)

Dates == {formatDateISO(c[1], c[2]) : c \in Cells}

\* ---------------------------------------------------------------- events
\* The events of DEFAULT_DATA, which the owner loads for a new profile.
DEFAULT_EVENTS ==
  <<[id |-> "evt_1", title |-> "Viaje", startDate |-> formatDateISO(6, 10),
     endDate |-> formatDateISO(6, 16),
     category |-> <<116, 114, 97, 118, 101, 108>>, color |-> "#f97316"],
    [id |-> "evt_2", title |-> "Hackathon", startDate |-> formatDateISO(2, 5),
     endDate |-> formatDateISO(2, 7),
     category |-> <<119, 111, 114, 107>>, color |-> "#3b82f6"]>>

\* The end date left out of the range.
isDateBeforeEnd(dateStr, startStr, endStr) ==
  ~StrLt(dateStr, startStr) /\ StrLt(dateStr, endStr)

isDateInRange(dateStr, startStr, endStr) ==
  ~StrLt(dateStr, startStr) /\ ~StrLt(endStr, dateStr)


\* A day entry, and data.days as a JavaScript value: its kind (an import may
\* put something else than an object there) and its date-keyed properties.
DayEntry(date, title, mood) == [date |-> date, title |-> title, mood |-> mood]
DaysValue(kind, map) == [kind |-> kind, map |-> map]
NoDays == DaysValue("object", <<>>)
DEFAULT_DAYS ==
  DaysValue("object",
    (formatDateISO(0, 1) :> DayEntry(formatDateISO(0, 1), "A", "excellent")) @@
    (formatDateISO(3, 14) :> DayEntry(formatDateISO(3, 14), "L", "good")))

\* The event modal before it is first opened.
NoForm == [editingEvent |-> NULL, name |-> "", startDate |-> formatDateISO(0, 1),
           endDate |-> <<>>, category |-> <<>>, error |-> ""]

\* ----------------------------------------------------------------- state
VARIABLES
  transformRef,      \* {x, y, scale}
  mode,              \* useState: 'pan' | 'select' | 'rectangle'
  selectionRange,    \* useState: NULL or [start, end]
  selectedRectId,    \* useState
  editingTextId,     \* useState
  currentRect,       \* useState: NULL or the draw preview [x, y, width, height]
  isDragging, isSelecting, isDrawingRect,   \* refs
  rectInteraction,   \* ref: NULL or [type, rectId, startMouse, initialRect, handle]
  lastPos,           \* ref (client coordinates)
  rectStartPos,      \* ref (canvas coordinates)
  hasMoved,          \* ref
  selectionStartRef, \* ref
  rectangles,        \* the owner's data.rectangles (latest state)
  isDayModalOpen, isEventModalOpen,   \* the owner's modal flags
  rendered,          \* state and props of the last committed render
  pointer,           \* the pointing device and what the browser does with it
  focus,             \* which element holds keyboard focus
  emitted,           \* callbacks invoked by the last step, in order
  gesture,           \* bookkeeping of the gesture in progress (not program state)
  event,             \* the input the last step handled (not program state)
  used,              \* how much of each bounded input has been spent
  days,              \* the owner's data.days: [kind, map]
  events,            \* the owner's data.events
  cell,              \* the grid cell rendered last: NULL or [monthIndex, dayNum, ...]
  form,              \* the event modal: editingEvent and the form's fields
  alerted,           \* alert() texts shown by the last step, in order
  inflight,          \* repository calls issued and not yet settled
  store,             \* which owner runs: "local" (App.tsx) or "remote" (Auth.tsx)
  remote,            \* the rows of the remote table canvas_rectangles
  session,           \* the local owner's profiles, currentUser, isDataLoaded and localStorage
  selectedDate       \* the owner's selectedDate (useState): NULL or a date

vars == <<transformRef, mode, selectionRange, selectedRectId, editingTextId,
          currentRect, isDragging, isSelecting, isDrawingRect, rectInteraction,
          lastPos, rectStartPos, hasMoved, selectionStartRef, rectangles,
          isDayModalOpen, isEventModalOpen, rendered, pointer, focus, emitted,
          gesture, event, used, days, events, cell, form, alerted, inflight,
          store, remote, session, selectedDate>>

refVars == <<isDragging, isSelecting, isDrawingRect, rectInteraction, lastPos,
             rectStartPos, hasMoved, selectionStartRef>>
stateVars == <<mode, selectionRange, selectedRectId, editingTextId, currentRect>>
ownerVars == <<rectangles, isDayModalOpen, isEventModalOpen>>
appVars == <<days, events, cell, form, alerted, inflight, store, remote, selectedDate>>
canvasVars == <<transformRef, refVars, stateVars, pointer, focus, gesture, used>>

getEventsForCell(dateStr) ==
  SelectSeq(events, LAMBDA evt : isDateInRange(dateStr, evt.startDate, evt.endDate))

\* What a render captures for the handlers created by it.
Snapshot(m, sr, sid, eid, cr, rs) ==
  [mode |-> m, selectionRange |-> sr, selectedRectId |-> sid,
   editingTextId |-> eid, currentRect |-> cr, rectangles |-> rs]

\* The component function runs and its handlers are recreated from the
\* latest state and props (primed: the state the step leaves).
Commit ==
  rendered' = Snapshot(mode', selectionRange', selectedRectId', editingTextId',
                       currentRect', rectangles')

NoTarget == [part |-> "none", cell |-> NULL]
NoGesture == [kind |-> "none", target |-> NoTarget, downPos |-> [x |-> 0, y |-> 0],
              strayed |-> FALSE]
NoPointer == [down |-> FALSE, button |-> 0, captured |-> FALSE, over |-> NULL,
              click |-> NoTarget]

InitCanvas ==
  /\ transformRef = InitialTransform
  /\ mode = "pan"
  /\ selectionRange = NULL
  /\ selectedRectId = NoString
  /\ editingTextId = NoString
  /\ currentRect = NULL
  /\ isDragging = FALSE
  /\ isSelecting = FALSE
  /\ isDrawingRect = FALSE
  /\ rectInteraction = NULL
  /\ lastPos = [x |-> 0, y |-> 0]
  /\ rectStartPos = [x |-> R(0), y |-> R(0)]
  /\ hasMoved = FALSE
  /\ selectionStartRef = NULL
  /\ rectangles = <<>>
  /\ isDayModalOpen = FALSE
  /\ isEventModalOpen = FALSE
  /\ rendered = Snapshot("pan", NULL, NoString, NoString, NULL, <<>>)
  /\ pointer = NoPointer
  /\ focus = "body"
  /\ emitted = <<>>
  /\ gesture = NoGesture
  /\ event = [type |-> "none", arg |-> NoString]
  /\ used = [zooms |-> 0, pans |-> 0, edits |-> 0]
  /\ cell = NULL
  /\ form = NoForm
  /\ alerted = <<>>
  /\ inflight = <<>>
  /\ remote = {}
  /\ selectedDate = NULL

\* The owner's data state, and what localStorage holds of it: the text of
\* JSON.stringify, which JSON.parse reads back.
AppData(d, e, r) == [days |-> d, events |-> e, rectangles |-> r]
stringify(data) == <<"json", data>>
parse(text) == text[2]

\* The local owner's profile states and the items of localStorage under
\* DATA_STORAGE_PREFIX + id (a function of the ids that have an item).  The
\* remote owner has none of them.
Session(profiles, currentUser, isDataLoaded, localStorage, pending) ==
  [profiles |-> profiles, currentUser |-> currentUser, isDataLoaded |-> isDataLoaded,
   localStorage |-> localStorage, pending |-> pending]
NoSession == Session({}, NoString, FALSE, <<>>, FALSE)

setItem(storage, key, text) ==
  [k \in DOMAIN storage \cup {key} |-> IF k = key THEN text ELSE storage[k]]
removeItem(storage, key) == [k \in DOMAIN storage \ {key} |-> storage[k]]

\* A save effect without its isDataLoaded test.
saveUnloadedUserData(s, data) ==
  IF s.currentUser # NoString
    THEN [s EXCEPT !.localStorage = setItem(@, s.currentUser, stringify(data))]
    ELSE s

\* The effect "Save User Data when data changes", run after a render with
\* the currentUser, isDataLoaded (in s) and data of that render.
saveUserData(s, data) ==
  IF s.currentUser # NoString /\ s.isDataLoaded
    THEN [s EXCEPT !.localStorage = setItem(@, s.currentUser, stringify(data))]
    ELSE s

\* The render after a step that left the profile states alone: of the two
\* effects on the user data only the save may run.
SessionRender ==
  session' = saveUserData(session, AppData(days', events', rectangles'))

\* The profile "A" is logged in and its data is loaded and saved.
InitSession ==
  session = IF store = "local"
              THEN Session({"A"}, "A", TRUE,
                           "A" :> stringify(AppData(days, events, rectangles)), FALSE)
              ELSE NoSession


\* The owner has loaded DEFAULT_DATA for a new profile.
Init ==
  /\ InitCanvas
  /\ store = "local"
  /\ days = DEFAULT_DAYS
  /\ events = DEFAULT_EVENTS
  /\ InitSession

\* ------------------------------------------------------------- transform
Unclamped(v, lo, hi) == v
Clamp(v, lo, hi) == RMin(RMax(v, lo), hi)

\* screen -> canvas coordinates
getCanvasCoordinates(clientX, clientY) ==
  [x |-> RDiv(RSub(R(clientX - ContainerLeft), transformRef.x), transformRef.scale),
   y |-> RDiv(RSub(R(clientY - ContainerTop), transformRef.y), transformRef.scale)]

\* The new scale of a modified-wheel zoom.
WheelScale(oldScale, deltaY) ==
  Clamp(RAdd(oldScale, RMul(R(-deltaY), ZoomSensitivity)), MIN_SCALE, MAX_SCALE)

\* A zoom about the canvas origin instead of the pointer.
WheelZoomAboutOrigin(t, clientX, clientY, deltaY) ==
  [t EXCEPT !.scale = WheelScale(t.scale, deltaY)]

\* The new transform of a modified-wheel zoom at the pointer.
WheelZoom(t, clientX, clientY, deltaY) ==
  LET oldScale == t.scale
      newScale == WheelScale(oldScale, deltaY)
      mouseX == R(clientX - ContainerLeft)
      mouseY == R(clientY - ContainerTop)
      scaleRatio == RDiv(newScale, oldScale)
  IN  [x |-> RSub(mouseX, RMul(RSub(mouseX, t.x), scaleRatio)),
       y |-> RSub(mouseY, RMul(RSub(mouseY, t.y), scaleRatio)),
       scale |-> newScale]

\* A click follows its pointer-up at once: nothing else is input in between.
Ready == pointer.click.part = "none"

\* An open modal covers the canvas and its toolbar.
CanvasReachable == Ready /\ ~isDayModalOpen /\ ~isEventModalOpen

Did(cb, a, b) == [cb |-> cb, a |-> a, b |-> b]

handleWheel(ctrlKey, deltaX, deltaY, p) ==
  /\ CanvasReachable
  /\ IF ctrlKey
       THEN transformRef' = WheelZoom(transformRef, p.x, p.y, deltaY)
       ELSE transformRef' = [transformRef EXCEPT !.x = RSub(@, R(deltaX)),
                                                 !.y = RSub(@, R(deltaY))]
  /\ emitted' = <<>>
  /\ UNCHANGED <<refVars, stateVars, ownerVars, rendered, pointer, focus, gesture>>

ToolbarReachable == CanvasReachable /\ ~pointer.down

zoomIn ==
  /\ ToolbarReachable
  /\ transformRef' = [transformRef EXCEPT !.scale = RMin(RAdd(@, ZoomStep), MAX_SCALE)]
  /\ emitted' = <<>>
  /\ UNCHANGED <<refVars, stateVars, ownerVars, rendered, pointer, focus, gesture>>

zoomOut ==
  /\ ToolbarReachable
  /\ transformRef' = [transformRef EXCEPT !.scale = RMax(RSub(@, ZoomStep), MIN_SCALE)]
  /\ emitted' = <<>>
  /\ UNCHANGED <<refVars, stateVars, ownerVars, rendered, pointer, focus, gesture>>

\* A reset that also returns to pan mode.
resetViewAndMode ==
  /\ ToolbarReachable
  /\ transformRef # InitialTransform
  /\ transformRef' = InitialTransform
  /\ mode' = "pan"
  /\ emitted' = <<>>
  /\ UNCHANGED <<refVars, selectionRange, selectedRectId, editingTextId, currentRect,
                 ownerVars, pointer, focus, gesture>>
  /\ Commit

resetView ==
  /\ ToolbarReachable
  /\ transformRef # InitialTransform
  /\ transformRef' = InitialTransform
  /\ emitted' = <<>>
  /\ UNCHANGED <<refVars, stateVars, ownerVars, rendered, pointer, focus, gesture>>

\* A toolbar mode button: onClick={() => setMode(m)}.
setMode(m) ==
  /\ ToolbarReachable
  /\ mode' = m
  /\ emitted' = <<>>
  /\ UNCHANGED <<transformRef, refVars, selectionRange, selectedRectId, editingTextId,
                 currentRect, ownerVars, pointer, focus, gesture>>
  /\ Commit

\* ------------------------------------------------------------ rectangles
Rect(id, x, y, w, h, text) ==
  [id |-> id, x |-> x, y |-> y, width |-> w, height |-> h,
   color |-> DefaultColor, text |-> text]

\* rectangles.find(r => r.id === id), NULL when there is none
HasRect(rs, id) == \E i \in 1..Len(rs) : rs[i].id = id
FindRect(rs, id) ==
  IF HasRect(rs, id)
    THEN rs[CHOOSE i \in 1..Len(rs) :
                 rs[i].id = id /\ \A j \in 1..(i - 1) : rs[j].id # id]
    ELSE NULL

\* The owner's handlers, applied to its latest state (setData(prev => ...)).
handleAddRectangle(rs, rect) == Append(rs, rect)
handleUpdateRectangle(rs, rect) ==
  [i \in 1..Len(rs) |-> IF rs[i].id = rect.id THEN rect ELSE rs[i]]
handleDeleteRectangle(rs, id) == SelectSeq(rs, LAMBDA r : r.id # id)

\* handlePointerUp's normalisation of the rectangle it found
Normalized(r) ==
  [r EXCEPT !.x = IF RLt(r.width, R(0)) THEN RAdd(r.x, r.width) ELSE r.x,
            !.y = IF RLt(r.height, R(0)) THEN RAdd(r.y, r.height) ELSE r.y,
            !.width = RAbs(r.width),
            !.height = RAbs(r.height)]

NeedsNormalizing(r) == RLt(r.width, R(0)) \/ RLt(r.height, R(0))

\* The delta applied to the rectangle as the owner holds it now, not to the
\* one captured at the start of the drag.
DriftingRect(ri, scale, clientX, clientY) ==
  LET deltaX == RDiv(R(clientX - ri.startMouse.x), scale)
      deltaY == RDiv(R(clientY - ri.startMouse.y), scale)
      i == IF HasRect(rectangles, ri.rectId) THEN FindRect(rectangles, ri.rectId)
           ELSE ri.initialRect
      hasE == ri.handle \in {"ne", "se"}
      hasS == ri.handle \in {"sw", "se"}
      hasW == ri.handle \in {"nw", "sw"}
      hasN == ri.handle \in {"nw", "ne"}
  IN  IF ri.type = "move"
        THEN [i EXCEPT !.x = RAdd(i.x, deltaX), !.y = RAdd(i.y, deltaY)]
        ELSE [i EXCEPT
               !.x = IF hasW THEN RAdd(i.x, deltaX) ELSE i.x,
               !.y = IF hasN THEN RAdd(i.y, deltaY) ELSE i.y,
               !.width = IF hasW THEN RSub(i.width, deltaX)
                         ELSE IF hasE THEN RAdd(i.width, deltaX) ELSE i.width,
               !.height = IF hasN THEN RSub(i.height, deltaY)
                          ELSE IF hasS THEN RAdd(i.height, deltaY) ELSE i.height]

\* A resize whose west and north handles move the origin and leave the size
\* as it was.
ShiftedRect(ri, scale, clientX, clientY) ==
  LET deltaX == RDiv(R(clientX - ri.startMouse.x), scale)
      deltaY == RDiv(R(clientY - ri.startMouse.y), scale)
      i == ri.initialRect
      hasE == ri.handle \in {"ne", "se"}
      hasS == ri.handle \in {"sw", "se"}
      hasW == ri.handle \in {"nw", "sw"}
      hasN == ri.handle \in {"nw", "ne"}
  IN  IF ri.type = "move"
        THEN [i EXCEPT !.x = RAdd(i.x, deltaX), !.y = RAdd(i.y, deltaY)]
        ELSE [i EXCEPT
               !.x = IF hasW THEN RAdd(i.x, deltaX) ELSE i.x,
               !.y = IF hasN THEN RAdd(i.y, deltaY) ELSE i.y,
               !.width = IF hasE THEN RAdd(i.width, deltaX) ELSE i.width,
               !.height = IF hasS THEN RAdd(i.height, deltaY) ELSE i.height]

\* The rectangle a pointer-move reports during a move or resize.
MovedRect(ri, scale, clientX, clientY) ==
  LET deltaX == RDiv(R(clientX - ri.startMouse.x), scale)
      deltaY == RDiv(R(clientY - ri.startMouse.y), scale)
      i == ri.initialRect
      hasE == ri.handle \in {"ne", "se"}
      hasS == ri.handle \in {"sw", "se"}
      hasW == ri.handle \in {"nw", "sw"}
      hasN == ri.handle \in {"nw", "ne"}
  IN  IF ri.type = "move"
        THEN [i EXCEPT !.x = RAdd(i.x, deltaX), !.y = RAdd(i.y, deltaY)]
        ELSE [i EXCEPT
               !.x = IF hasW THEN RAdd(i.x, deltaX) ELSE i.x,
               !.y = IF hasN THEN RAdd(i.y, deltaY) ELSE i.y,
               !.width = IF hasW THEN RSub(i.width, deltaX)
                         ELSE IF hasE THEN RAdd(i.width, deltaX) ELSE i.width,
               !.height = IF hasN THEN RSub(i.height, deltaY)
                          ELSE IF hasS THEN RAdd(i.height, deltaY) ELSE i.height]

\* The new rectangle built without the generated id.
AnonymousRect(cr, start, id) ==
  Rect(NoString,
       IF RLt(cr.width, R(0)) THEN RAdd(start.x, cr.width) ELSE start.x,
       IF RLt(cr.height, R(0)) THEN RAdd(start.y, cr.height) ELSE start.y,
       RAbs(cr.width), RAbs(cr.height), NoString)

\* The rectangle handlePointerUp builds from the draw preview it sees.
FinalRect(cr, start, id) ==
  Rect(id,
       IF RLt(cr.width, R(0)) THEN RAdd(start.x, cr.width) ELSE start.x,
       IF RLt(cr.height, R(0)) THEN RAdd(start.y, cr.height) ELSE start.y,
       RAbs(cr.width), RAbs(cr.height), NoString)

BigEnough(w, h) == RLt(MinRectSize, w) /\ RLt(MinRectSize, h)

\* generateId(): an id not in use
FreshIds == {id \in RectIds : \A i \in 1..Len(rectangles) : rectangles[i].id # id}

\* ---------------------------------------------------------- pointer down
Far(a, b) == AbsInt(a.x - b.x) > MoveThreshold \/ AbsInt(a.y - b.y) > MoveThreshold

\* Pressing on anything but a rectangle moves the focus away from the label
\* being edited; its onBlur handler ends the edit.
BlurOnPress(editing) == IF focus = "rectText" THEN NoString ELSE editing

StartGesture(kind, target, p, button, captured) ==
  /\ pointer' = [down |-> TRUE, button |-> button, captured |-> captured,
                 over |-> target.cell, click |-> NoTarget]
  /\ gesture' = [kind |-> kind, target |-> target, downPos |-> p, strayed |-> FALSE]

\* The container's onPointerDown.
handlePointerDown(p, button, target) ==
  IF button # 0
    THEN /\ UNCHANGED <<selectedRectId, isDrawingRect, rectStartPos, currentRect,
                        isDragging, hasMoved, lastPos>>
         /\ editingTextId' = BlurOnPress(editingTextId)
         /\ StartGesture("none", target, p, button, FALSE)
    ELSE /\ selectedRectId' = IF rendered.selectedRectId # NoString /\ rectInteraction = NULL
                                THEN NoString ELSE selectedRectId
         /\ editingTextId' = IF rendered.editingTextId # NoString
                               THEN NoString ELSE BlurOnPress(editingTextId)
         /\ IF rendered.mode = "rectangle"
              THEN /\ isDrawingRect' = TRUE
                   /\ rectStartPos' = getCanvasCoordinates(p.x, p.y)
                   /\ currentRect' = [x |-> getCanvasCoordinates(p.x, p.y).x,
                                      y |-> getCanvasCoordinates(p.x, p.y).y,
                                      width |-> R(0), height |-> R(0)]
                   /\ UNCHANGED <<isDragging, hasMoved, lastPos>>
                   /\ StartGesture("draw", target, p, button, TRUE)
              ELSE /\ isDragging' = TRUE
                   /\ hasMoved' = FALSE
                   /\ lastPos' = p
                   /\ UNCHANGED <<isDrawingRect, rectStartPos, currentRect>>
                   /\ StartGesture("pan", target, p, button, TRUE)

\* Pointer-down on empty canvas: only the container's handler runs.
CanvasPointerDown(p, button) ==
  /\ CanvasReachable /\ ~pointer.down
  /\ handlePointerDown(p, button, [part |-> "canvas", cell |-> NULL])
  /\ focus' = "body"
  /\ emitted' = <<>>
  /\ UNCHANGED <<transformRef, mode, selectionRange, isSelecting, rectInteraction,
                 selectionStartRef, ownerVars>>
  /\ Commit

\* The shift key ignored.
CellStartsSelectionInSelectMode(shiftKey) ==
  /\ ~(rendered.mode = "rectangle" \/ rectInteraction # NULL)
  /\ rendered.mode = "select"

\* Does the cell's handler take the press as the start of a selection?
CellStartsSelection(shiftKey) ==
  /\ ~(rendered.mode = "rectangle" \/ rectInteraction # NULL)
  /\ (rendered.mode = "select" \/ shiftKey)

\* Pointer-down inside a day cell (on the cell itself, an event chip or the
\* add-event card): the cell's handleCellPointerDown, then, unless it stopped
\* the propagation, the container's handlePointerDown.
handleCellPointerDown(c, part, p, shiftKey, button) ==
  LET dateStr == formatDateISO(c[1], c[2])
      target == [part |-> part, cell |-> c]
  IN
  /\ CanvasReachable /\ ~pointer.down
  /\ isValidDay(c[1], c[2])
  /\ part = "chip" => getEventsForCell(dateStr) # <<>>
  /\ IF CellStartsSelection(shiftKey)
       THEN /\ isSelecting' = TRUE
            /\ selectionStartRef' = dateStr
            /\ selectionRange' = [start |-> dateStr, end |-> dateStr]
            /\ editingTextId' = BlurOnPress(editingTextId)
            /\ StartGesture("select", target, p, button, FALSE)
            /\ UNCHANGED <<selectedRectId, isDrawingRect, rectStartPos, currentRect,
                           isDragging, hasMoved, lastPos>>
       ELSE /\ handlePointerDown(p, button, target)
            /\ UNCHANGED <<isSelecting, selectionStartRef, selectionRange>>
  /\ focus' = "body"
  /\ emitted' = <<>>
  /\ UNCHANGED <<transformRef, mode, rectInteraction, ownerVars>>
  /\ Commit

\* Are the four corner handles of this rectangle on screen?
HandlesShown(id) == rendered.selectedRectId = id /\ rendered.editingTextId # id

\* Pointer-down on a rectangle's body (no handle) or on a corner handle.
handleRectPointerDown(id, handle, p) ==
  LET rect == FindRect(rendered.rectangles, id) IN
  /\ CanvasReachable /\ ~pointer.down
  /\ HasRect(rendered.rectangles, id)
  /\ handle # NoString => HandlesShown(id)
  /\ selectedRectId' = id
  /\ rectInteraction' = [type |-> IF handle # NoString THEN "resize" ELSE "move",
                         rectId |-> id, initialRect |-> rect,
                         startMouse |-> p, handle |-> handle]
  /\ StartGesture("rect", [part |-> "rect", cell |-> NULL], p, 0, TRUE)
  /\ emitted' = <<>>
  /\ UNCHANGED <<transformRef, mode, selectionRange, editingTextId, currentRect,
                 isDragging, isSelecting, isDrawingRect, lastPos, rectStartPos,
                 hasMoved, selectionStartRef, ownerVars, focus>>
  /\ Commit

\* ---------------------------------------------------- pointer move / enter
\* A pointer-move that reports a move or resize only when the pointer is
\* away from where it was pressed.
handlePointerMoveWhenMoved(p) ==
  /\ pointer.captured \/ CanvasReachable
  /\ IF rectInteraction # NULL
       THEN LET newRect == MovedRect(rectInteraction, transformRef.scale, p.x, p.y) IN
            /\ rectangles' = IF p = rectInteraction.startMouse THEN rectangles
                              ELSE handleUpdateRectangle(rectangles, newRect)
            /\ emitted' = IF p = rectInteraction.startMouse THEN <<>>
                           ELSE <<Did("onUpdateRectangle", newRect, NULL)>>
            /\ UNCHANGED <<currentRect, hasMoved, transformRef, lastPos>>
       ELSE IF isDrawingRect /\ rendered.currentRect # NULL
       THEN LET coords == getCanvasCoordinates(p.x, p.y)
                width == RSub(coords.x, rectStartPos.x)
                height == RSub(coords.y, rectStartPos.y)
            IN
            /\ currentRect' = IF currentRect = NULL
                                THEN [x |-> NULL, y |-> NULL, width |-> width, height |-> height]
                                ELSE [currentRect EXCEPT !.width = width, !.height = height]
            /\ emitted' = <<>>
            /\ UNCHANGED <<rectangles, hasMoved, transformRef, lastPos>>
       ELSE IF isDragging
       THEN LET deltaX == p.x - lastPos.x
                deltaY == p.y - lastPos.y
            IN
            /\ p # lastPos
            /\ hasMoved' = (hasMoved \/ AbsInt(deltaX) > MoveThreshold
                                     \/ AbsInt(deltaY) > MoveThreshold)
            /\ IF ~isSelecting
                 THEN /\ transformRef' = [transformRef EXCEPT !.x = RAdd(@, R(deltaX)),
                                                              !.y = RAdd(@, R(deltaY))]
                 ELSE UNCHANGED transformRef
            /\ lastPos' = p
            /\ emitted' = <<>>
            /\ UNCHANGED <<rectangles, currentRect>>
       ELSE /\ emitted' = <<>>
            /\ UNCHANGED <<rectangles, currentRect, hasMoved, transformRef, lastPos>>
  /\ UNCHANGED pointer
  /\ gesture' = IF pointer.down
                  THEN [gesture EXCEPT !.strayed = @ \/ Far(p, gesture.downPos)]
                  ELSE gesture
  /\ UNCHANGED <<mode, selectionRange, selectedRectId, editingTextId, isDragging,
                 isSelecting, isDrawingRect, rectInteraction, rectStartPos,
                 selectionStartRef, isDayModalOpen, isEventModalOpen, rendered, focus>>

\* The container's onPointerMove (a continuous event: what it sets is
\* rendered later, by Render or by the next discrete event).
handlePointerMove(p) ==
  /\ pointer.captured \/ CanvasReachable
  /\ IF rectInteraction # NULL
       THEN LET newRect == MovedRect(rectInteraction, transformRef.scale, p.x, p.y) IN
            /\ rectangles' = handleUpdateRectangle(rectangles, newRect)
            /\ emitted' = <<Did("onUpdateRectangle", newRect, NULL)>>
            /\ UNCHANGED <<currentRect, hasMoved, transformRef, lastPos>>
       ELSE IF isDrawingRect /\ rendered.currentRect # NULL
       THEN LET coords == getCanvasCoordinates(p.x, p.y)
                width == RSub(coords.x, rectStartPos.x)
                height == RSub(coords.y, rectStartPos.y)
            IN
            /\ currentRect' = IF currentRect = NULL
                                THEN [x |-> NULL, y |-> NULL, width |-> width, height |-> height]
                                ELSE [currentRect EXCEPT !.width = width, !.height = height]
            /\ emitted' = <<>>
            /\ UNCHANGED <<rectangles, hasMoved, transformRef, lastPos>>
       ELSE IF isDragging
       THEN LET deltaX == p.x - lastPos.x
                deltaY == p.y - lastPos.y
            IN
            /\ p # lastPos
            /\ hasMoved' = (hasMoved \/ AbsInt(deltaX) > MoveThreshold
                                     \/ AbsInt(deltaY) > MoveThreshold)
            /\ IF ~isSelecting
                 THEN /\ transformRef' = [transformRef EXCEPT !.x = RAdd(@, R(deltaX)),
                                                              !.y = RAdd(@, R(deltaY))]
                 ELSE UNCHANGED transformRef
            /\ lastPos' = p
            /\ emitted' = <<>>
            /\ UNCHANGED <<rectangles, currentRect>>
       ELSE /\ emitted' = <<>>
            /\ UNCHANGED <<rectangles, currentRect, hasMoved, transformRef, lastPos>>
  /\ UNCHANGED pointer
  /\ gesture' = IF pointer.down
                  THEN [gesture EXCEPT !.strayed = @ \/ Far(p, gesture.downPos)]
                  ELSE gesture
  /\ UNCHANGED <<mode, selectionRange, selectedRectId, editingTextId, isDragging,
                 isSelecting, isDrawingRect, rectInteraction, rectStartPos,
                 selectionStartRef, isDayModalOpen, isEventModalOpen, rendered, focus>>

\* The pointer enters a day cell (not delivered while the pointer is captured).
handleCellPointerEnter(c) ==
  LET dateStr == formatDateISO(c[1], c[2]) IN
  /\ CanvasReachable /\ ~pointer.captured
  /\ isValidDay(c[1], c[2])
  /\ pointer.down => pointer.over # c
  /\ IF isSelecting /\ selectionStartRef # NULL
       THEN selectionRange' =
              [start |-> IF StrLt(selectionStartRef, dateStr) THEN selectionStartRef ELSE dateStr,
               end |-> IF StrLt(selectionStartRef, dateStr) THEN dateStr ELSE selectionStartRef]
       ELSE UNCHANGED selectionRange
  /\ pointer' = IF pointer.down THEN [pointer EXCEPT !.over = c] ELSE pointer
  /\ UNCHANGED gesture
  /\ emitted' = <<>>
  /\ UNCHANGED <<transformRef, mode, selectedRectId, editingTextId, currentRect, refVars,
                 ownerVars, rendered, focus>>

\* The scheduled render of what continuous events have set.
Render ==
  /\ rendered # Snapshot(mode, selectionRange, selectedRectId, editingTextId,
                         currentRect, rectangles)
  /\ emitted' = <<>>
  /\ UNCHANGED <<transformRef, refVars, stateVars, ownerVars, pointer, focus, gesture>>
  /\ Commit

\* ------------------------------------------------------------ pointer up
\* The owner passes onRangeSelect={handleRangeSelect}.
onRangeSelectGiven == TRUE

\* Where the browser sends the click that follows a primary-button release:
\* to the pressed element when it held the capture, otherwise to the pressed
\* cell if the pointer is still over it.
ClickTarget ==
  IF pointer.button = 0 /\ gesture.target.part \in {"cell", "chip", "add"}
       /\ (pointer.captured \/ pointer.over = gesture.target.cell)
    THEN gesture.target ELSE NoTarget

\* A pointer-up that leaves a draw below the minimum size in progress.
handlePointerUpKeepsSmallDraws ==
  IF rectInteraction # NULL
    THEN LET r == FindRect(rendered.rectangles, rectInteraction.rectId) IN
         /\ IF HasRect(rendered.rectangles, rectInteraction.rectId) /\ NeedsNormalizing(r)
              THEN rectangles' = handleUpdateRectangle(rectangles, Normalized(r))
              ELSE UNCHANGED rectangles
         /\ rectInteraction' = NULL
         /\ UNCHANGED <<isDrawingRect, currentRect, selectedRectId, mode, isDragging>>
    ELSE IF isDrawingRect /\ rendered.currentRect # NULL
            /\ BigEnough(RAbs(rendered.currentRect.width), RAbs(rendered.currentRect.height))
    THEN /\ isDrawingRect' = FALSE
         /\ currentRect' = NULL
         /\ \E newId \in FreshIds :
              /\ rectangles' = handleAddRectangle(rectangles,
                                  FinalRect(rendered.currentRect, rectStartPos, newId))
              /\ IF rendered.mode = "rectangle"
                   THEN selectedRectId' = newId /\ mode' = "pan"
                   ELSE UNCHANGED <<selectedRectId, mode>>
         /\ UNCHANGED <<rectInteraction, isDragging>>
    ELSE /\ isDragging' = FALSE
         /\ UNCHANGED <<rectangles, rectInteraction, isDrawingRect, currentRect,
                        selectedRectId, mode>>

\* A pointer-up that leaves the pan drag in progress.
handlePointerUpKeepsDrag ==
  IF rectInteraction # NULL
    THEN LET r == FindRect(rendered.rectangles, rectInteraction.rectId) IN
         /\ IF HasRect(rendered.rectangles, rectInteraction.rectId) /\ NeedsNormalizing(r)
              THEN rectangles' = handleUpdateRectangle(rectangles, Normalized(r))
              ELSE UNCHANGED rectangles
         /\ rectInteraction' = NULL
         /\ UNCHANGED <<isDrawingRect, currentRect, selectedRectId, mode, isDragging>>
    ELSE IF isDrawingRect /\ rendered.currentRect # NULL
    THEN /\ isDrawingRect' = FALSE
         /\ currentRect' = NULL
         /\ IF BigEnough(RAbs(rendered.currentRect.width), RAbs(rendered.currentRect.height))
              THEN \E newId \in FreshIds :
                     /\ rectangles' = handleAddRectangle(rectangles,
                                         FinalRect(rendered.currentRect, rectStartPos, newId))
                     /\ IF rendered.mode = "rectangle"
                          THEN selectedRectId' = newId /\ mode' = "pan"
                          ELSE UNCHANGED <<selectedRectId, mode>>
              ELSE UNCHANGED <<rectangles, selectedRectId, mode>>
         /\ UNCHANGED <<rectInteraction, isDragging>>
    ELSE UNCHANGED <<isDragging, rectangles, rectInteraction, isDrawingRect, currentRect,
                     selectedRectId, mode>>

\* The container's onPointerUp.
handlePointerUp ==
  IF rectInteraction # NULL
    THEN LET r == FindRect(rendered.rectangles, rectInteraction.rectId) IN
         /\ IF HasRect(rendered.rectangles, rectInteraction.rectId) /\ NeedsNormalizing(r)
              THEN rectangles' = handleUpdateRectangle(rectangles, Normalized(r))
              ELSE UNCHANGED rectangles
         /\ rectInteraction' = NULL
         /\ UNCHANGED <<isDrawingRect, currentRect, selectedRectId, mode, isDragging>>
    ELSE IF isDrawingRect /\ rendered.currentRect # NULL
    THEN /\ isDrawingRect' = FALSE
         /\ currentRect' = NULL
         /\ IF BigEnough(RAbs(rendered.currentRect.width), RAbs(rendered.currentRect.height))
              THEN \E newId \in FreshIds :
                     /\ rectangles' = handleAddRectangle(rectangles,
                                         FinalRect(rendered.currentRect, rectStartPos, newId))
                     /\ IF rendered.mode = "rectangle"
                          THEN selectedRectId' = newId /\ mode' = "pan"
                          ELSE UNCHANGED <<selectedRectId, mode>>
              ELSE UNCHANGED <<rectangles, selectedRectId, mode>>
         /\ UNCHANGED <<rectInteraction, isDragging>>
    ELSE /\ isDragging' = FALSE
         /\ UNCHANGED <<rectangles, rectInteraction, isDrawingRect, currentRect,
                        selectedRectId, mode>>

\* What handlePointerUp reported to the owner (from the state it left).
PointerUpCalls ==
  IF rectInteraction # NULL
    THEN LET r == FindRect(rendered.rectangles, rectInteraction.rectId) IN
         IF HasRect(rendered.rectangles, rectInteraction.rectId) /\ NeedsNormalizing(r)
           THEN <<Did("onUpdateRectangle", Normalized(r), NULL)>> ELSE <<>>
    ELSE IF isDrawingRect /\ rendered.currentRect # NULL /\ Len(rectangles') > Len(rectangles)
    THEN <<Did("onAddRectangle", rectangles'[Len(rectangles')], NULL)>>
    ELSE <<>>

\* Only a selection over more than one day taken for one to commit.
CommitsMovedSelection ==
  /\ isSelecting /\ selectionStartRef # NULL /\ rendered.selectionRange # NULL
  /\ rendered.selectionRange.start # rendered.selectionRange.end

CommitsSelection ==
  isSelecting /\ selectionStartRef # NULL /\ rendered.selectionRange # NULL

CommitsRange ==
  rendered.selectionRange.start # rendered.selectionRange.end /\ onRangeSelectGiven

\* The window's pointerup listener, with the owner's handleRangeSelect and
\* handleDayClick.
handleGlobalPointerUp ==
  IF CommitsSelection
    THEN /\ isSelecting' = FALSE
         /\ IF CommitsRange
              THEN isEventModalOpen' = TRUE /\ UNCHANGED isDayModalOpen
              ELSE isDayModalOpen' = TRUE /\ UNCHANGED isEventModalOpen
         /\ selectionRange' = NULL
         /\ selectionStartRef' = NULL
    ELSE UNCHANGED <<isSelecting, isDayModalOpen, isEventModalOpen, selectionRange,
                     selectionStartRef>>

GlobalPointerUpCalls ==
  IF ~CommitsSelection THEN <<>>
  ELSE IF CommitsRange
    THEN <<Did("onRangeSelect", rendered.selectionRange.start, rendered.selectionRange.end)>>
    ELSE <<Did("onDayClick", rendered.selectionRange.start, NULL)>>

\* The button is released: the container's handler, then the window's.
PointerUp ==
  /\ pointer.down
  /\ handlePointerUp
  /\ handleGlobalPointerUp
  /\ emitted' = PointerUpCalls \o GlobalPointerUpCalls
  /\ pointer' = [NoPointer EXCEPT !.click = ClickTarget]
  /\ gesture' = IF ClickTarget = NoTarget THEN NoGesture ELSE gesture
  /\ UNCHANGED <<transformRef, editingTextId, lastPos, rectStartPos, hasMoved,
                 focus>>
  /\ Commit

\* ---------------------------------------------------------------- clicks
\* The day cell's onClick.
CellClick ==
  LET c == pointer.click.cell IN
  /\ pointer.click.part = "cell"
  /\ IF ~isSelecting /\ rendered.selectionRange = NULL /\ ~hasMoved
        /\ rendered.mode # "rectangle" /\ rectInteraction = NULL
        /\ rendered.editingTextId = NoString
       THEN /\ isDayModalOpen' = TRUE
            /\ emitted' = <<Did("onDayClick", formatDateISO(c[1], c[2]), NULL)>>
       ELSE /\ UNCHANGED isDayModalOpen
            /\ emitted' = <<>>
  /\ pointer' = NoPointer
  /\ gesture' = NoGesture
  /\ UNCHANGED <<transformRef, refVars, stateVars, rectangles, isEventModalOpen,
                 focus>>
  /\ Commit

\* An event chip's onClick (it stops the propagation to the cell).
ChipClick(evt) ==
  LET c == pointer.click.cell IN
  /\ pointer.click.part = "chip"
  /\ \E i \in 1..Len(getEventsForCell(formatDateISO(c[1], c[2]))) :
       getEventsForCell(formatDateISO(c[1], c[2]))[i] = evt
  /\ IF ~hasMoved /\ rendered.mode # "rectangle" /\ rectInteraction = NULL
       THEN /\ isEventModalOpen' = TRUE
            /\ isDayModalOpen' = FALSE
            /\ emitted' = <<Did("onEventClick", evt.id, NULL)>>
       ELSE /\ UNCHANGED <<isDayModalOpen, isEventModalOpen>>
            /\ emitted' = <<>>
  /\ pointer' = NoPointer
  /\ gesture' = NoGesture
  /\ UNCHANGED <<transformRef, refVars, stateVars, rectangles, focus>>
  /\ Commit

\* The add-event card's onClick, with the owner's handleAddEventFromDay.
AddEventClick ==
  LET c == pointer.click.cell IN
  /\ pointer.click.part = "add"
  /\ isEventModalOpen' = TRUE
  /\ isDayModalOpen' = FALSE
  /\ emitted' = <<Did("onAddEventClick", formatDateISO(c[1], c[2]), NULL)>>
  /\ pointer' = NoPointer
  /\ gesture' = NoGesture
  /\ UNCHANGED <<transformRef, refVars, stateVars, rectangles, focus>>
  /\ Commit

\* -------------------------------------------------------------- keyboard
\* Escape taken as a mode key too.
ModeForKeyOrEscape(key, m) ==
  CASE key = "v" -> "select"
    [] key \in {"h", "Escape"} -> "pan"
    [] key = "r" -> "rectangle"
    [] OTHER -> m

\* The mode a key switches to.
ModeForKey(key, m) ==
  CASE key = "v" -> "select"
    [] key = "h" -> "pan"
    [] key = "r" -> "rectangle"
    [] OTHER -> m

\* The target of the key press ignored.
IgnoresKeysWhileEditing == rendered.editingTextId # NoString

\* The listener's two early returns: a label is being edited, or the key
\* press's target is an input or a textarea.
IgnoresKeys == rendered.editingTextId # NoString \/ focus \in {"input", "rectText"}

\* The window's keydown listener, and the open modals' Escape listener.
handleKeyDown(key) ==
  /\ Ready
  /\ IF IgnoresKeys
       THEN /\ UNCHANGED <<mode, rectangles, selectedRectId>>
            /\ emitted' = <<>>
       ELSE /\ mode' = ModeForKey(key, mode)
            /\ IF key \in {"Delete", "Backspace"} /\ rendered.selectedRectId # NoString
                 THEN /\ rectangles' = handleDeleteRectangle(rectangles, rendered.selectedRectId)
                      /\ selectedRectId' = NoString
                      /\ emitted' = <<Did("onDeleteRectangle", rendered.selectedRectId, NULL)>>
                 ELSE /\ UNCHANGED <<rectangles, selectedRectId>>
                      /\ emitted' = <<>>
  /\ IF key = "Escape"
       THEN /\ isDayModalOpen' = FALSE
            /\ isEventModalOpen' = FALSE
            /\ focus' = IF focus = "input" THEN "body" ELSE focus
       ELSE UNCHANGED <<isDayModalOpen, isEventModalOpen, focus>>
  /\ UNCHANGED <<transformRef, refVars, selectionRange, editingTextId, currentRect,
                 pointer, gesture>>
  /\ Commit

\* ------------------------------------------------------------- text edit
handleRectDoubleClick(id) ==
  /\ CanvasReachable /\ ~pointer.down
  /\ HasRect(rendered.rectangles, id)
  /\ rendered.editingTextId # id
  /\ editingTextId' = id
  /\ focus' = "rectText"
  /\ emitted' = <<>>
  /\ UNCHANGED <<transformRef, refVars, mode, selectionRange, selectedRectId,
                 currentRect, ownerVars, pointer, gesture>>
  /\ Commit

handleTextChange(id, text) ==
  LET rect == FindRect(rendered.rectangles, id) IN
  /\ Ready /\ focus = "rectText"
  /\ rendered.editingTextId = id
  /\ HasRect(rendered.rectangles, id) /\ rect.text # text
  /\ rectangles' = handleUpdateRectangle(rectangles, [rect EXCEPT !.text = text])
  /\ emitted' = <<Did("onUpdateRectangle", [rect EXCEPT !.text = text], NULL)>>
  /\ UNCHANGED <<transformRef, refVars, stateVars, isDayModalOpen, isEventModalOpen,
                 pointer, focus, gesture>>
  /\ Commit

\* The label's onBlur.
TextBlur ==
  /\ Ready /\ focus = "rectText"
  /\ editingTextId' = NoString
  /\ focus' = "body"
  /\ emitted' = <<>>
  /\ UNCHANGED <<transformRef, refVars, mode, selectionRange, selectedRectId,
                 currentRect, ownerVars, pointer, gesture>>
  /\ Commit

\* The on-canvas delete button of the selected rectangle.
DeleteButtonClick(id) ==
  /\ CanvasReachable /\ ~pointer.down
  /\ HasRect(rendered.rectangles, id)
  /\ HandlesShown(id)
  /\ rectangles' = handleDeleteRectangle(rectangles, id)
  /\ emitted' = <<Did("onDeleteRectangle", id, NULL)>>
  /\ UNCHANGED <<transformRef, refVars, stateVars, isDayModalOpen, isEventModalOpen,
                 pointer, focus, gesture>>
  /\ Commit

\* ---------------------------------------------------------------- modals
CloseDayModal ==
  /\ Ready /\ ~pointer.down /\ isDayModalOpen
  /\ isDayModalOpen' = FALSE
  /\ focus' = IF focus = "input" /\ ~isEventModalOpen THEN "body" ELSE focus
  /\ emitted' = <<>>
  /\ UNCHANGED <<transformRef, refVars, stateVars, rectangles, isEventModalOpen,
                 rendered, pointer, gesture>>

CloseEventModal ==
  /\ Ready /\ ~pointer.down /\ isEventModalOpen
  /\ isEventModalOpen' = FALSE
  /\ focus' = IF focus = "input" /\ ~isDayModalOpen THEN "body" ELSE focus
  /\ emitted' = <<>>
  /\ UNCHANGED <<transformRef, refVars, stateVars, rectangles, isDayModalOpen,
                 rendered, pointer, gesture>>

\* The user puts the caret in a text field of an open form.
FocusInput ==
  /\ Ready /\ ~pointer.down
  /\ isDayModalOpen \/ isEventModalOpen
  /\ focus = "body"
  /\ focus' = "input"
  /\ emitted' = <<>>
  /\ UNCHANGED <<transformRef, refVars, stateVars, ownerVars, rendered, pointer,
                 gesture>>

\* ------------------------------------------------------------------ grid
\* Array.prototype.sort with (a, b) => a.startDate.localeCompare(b.startDate):
\* stable, ascending by start date.
RECURSIVE InsertBeforeEqual(_, _)
InsertBeforeEqual(sorted, evt) ==
  IF sorted = <<>> THEN <<evt>>
  ELSE IF ~StrLt(Head(sorted).startDate, evt.startDate) THEN <<evt>> \o sorted
  ELSE <<Head(sorted)>> \o InsertBeforeEqual(Tail(sorted), evt)

RECURSIVE InsertByStart(_, _)
InsertByStart(sorted, evt) ==
  IF sorted = <<>> THEN <<evt>>
  ELSE IF StrLt(evt.startDate, Head(sorted).startDate) THEN <<evt>> \o sorted
  ELSE <<Head(sorted)>> \o InsertByStart(Tail(sorted), evt)

RECURSIVE SortByStart(_)
SortByStart(evts) ==
  IF evts = <<>> THEN <<>>
  ELSE InsertByStart(SortByStart(SubSeq(evts, 1, Len(evts) - 1)), evts[Len(evts)])

\* The grid's rendering of the cell of one month row and day column: a
\* placeholder without handlers for an invalid day, otherwise the cell with
\* its handlers, the chips of its first events and the count of the rest.
RenderCell(monthIndex, dayNum) ==
  LET dateStr == formatDateISO(monthIndex, dayNum)
      cellEvents == SortByStart(getEventsForCell(dateStr))
      shown == IF Len(cellEvents) > MaxChips THEN MaxChips ELSE Len(cellEvents)
  IN
  /\ cell' = IF ~isValidDay(monthIndex, dayNum)
               THEN [monthIndex |-> monthIndex, dayNum |-> dayNum, interactive |-> FALSE,
                     dateStr |-> <<>>, chips |-> <<>>, more |-> 0]
               ELSE [monthIndex |-> monthIndex, dayNum |-> dayNum, interactive |-> TRUE,
                     dateStr |-> dateStr, chips |-> SubSeq(cellEvents, 1, shown),
                     more |-> Len(cellEvents) - shown]
  /\ UNCHANGED <<canvasVars, ownerVars, rendered, emitted, days, events, form, alerted,
                 inflight, store, remote, session, selectedDate>>

\* ------------------------------------------------------------------ spec
\* The input a step handles: the DOM event's type and what tells it apart
\* (the key, the modifier, the mode button).  Renders leave no record, and
\* neither does continuous input (wheel, pointer-move, pointer-enter) where
\* a specification has no need to tell it apart.
Input(type, arg) == event' = [type |-> type, arg |-> arg]

\* An input to the canvas: the handlers of the canvas touch nothing of the
\* owner but the rectangles and the two modal flags.
Event(type, arg) == Input(type, arg) /\ UNCHANGED appVars /\ SessionRender
Continuous == Event("none", NoString)

\* The move / resize gestures started on the rectangles there are.
Edits ==
  IF rectangles' = <<>> THEN 0
  ELSE used.edits + (IF rectInteraction' # NULL /\ rectInteraction = NULL THEN 1 ELSE 0)

\* What a step spends: a zoom when it changes the scale, a pan when it moves
\* the origin only, an edit when it starts a rectangle move or resize.
Tally ==
  used' = [zooms |-> used.zooms +
                       (IF transformRef'.scale # transformRef.scale THEN 1 ELSE 0),
           pans |-> used.pans +
                      (IF transformRef'.scale = transformRef.scale
                          /\ transformRef' # transformRef THEN 1 ELSE 0),
           edits |-> Edits]

\* The budgets of a specification: how many zooms, pans and rectangle
\* move / resize gestures, and how many rectangles.
Within(zooms, pans, edits, rects) ==
  /\ Tally
  /\ used'.zooms <= zooms
  /\ used'.pans <= pans
  /\ used'.edits <= edits
  /\ (isDrawingRect' /\ ~isDrawingRect) => Len(rectangles) < rects

\* The views one change away from the initial one.
NearViews ==
  {InitialTransform}
    \cup {WheelZoom(InitialTransform, p.x, p.y, dy) : p \in OnePoint, dy \in FewWheelDeltas}
    \cup {[InitialTransform EXCEPT !.y = RSub(@, R(dy))] : dy \in FewWheelDeltas}
    \cup {[InitialTransform EXCEPT !.scale = RAdd(@, ZoomStep)],
          [InitialTransform EXCEPT !.scale = RSub(@, ZoomStep)]}
    \cup {[InitialTransform EXCEPT !.x = RAdd(@, R(p.x - q.x)), !.y = RAdd(@, R(p.y - q.y))] :
            p \in MovePoints, q \in OnePoint}

\* The full specification keeps the view near the initial one and changes
\* it only while the canvas holds no rectangle.
Budget ==
  /\ used' = [used EXCEPT !.edits = Edits]
  /\ used'.edits <= MaxEdits
  /\ (isDrawingRect' /\ ~isDrawingRect) => Len(rectangles) < MaxRects
  /\ transformRef' \in NearViews
  /\ transformRef' # transformRef => rectangles = <<>>

ShiftArg(shiftKey) == IF shiftKey THEN "shift" ELSE NoString

\* Every handler, with the least geometry that lets each of them act.
Next ==
  \/ \E ctrlKey \in BOOLEAN, dy \in FewWheelDeltas, p \in OnePoint :
       handleWheel(ctrlKey, 0, dy, p) /\ Budget /\ Continuous
  \/ zoomIn /\ Budget /\ Event("zoomIn", NoString)
  \/ zoomOut /\ Budget /\ Event("zoomOut", NoString)
  \/ resetView /\ Budget /\ Event("resetView", NoString)
  \/ \E m \in Modes : setMode(m) /\ Budget /\ Event("modeButton", m)
  \/ \E p \in OnePoint, b \in Buttons :
       CanvasPointerDown(p, b) /\ Budget /\ Event("pointerdown", NoString)
  \/ \E c \in TwoCells, part \in CellParts, p \in OnePoint, shiftKey \in BOOLEAN :
       /\ handleCellPointerDown(c, part, p, shiftKey, 0) /\ Budget
       /\ Event("cellpointerdown", ShiftArg(shiftKey))
  \/ \E id \in RectIds, h \in FewHandles \cup {NoString}, p \in OnePoint :
       handleRectPointerDown(id, h, p) /\ Budget /\ Event("rectpointerdown", h)
  \/ \E p \in MovePoints : handlePointerMove(p) /\ Budget /\ Continuous
  \/ \E c \in TwoCells : handleCellPointerEnter(c) /\ Budget /\ Continuous
  \/ Render /\ Budget /\ Continuous
  \/ PointerUp /\ Budget /\ Event("pointerup", NoString)
  \/ CellClick /\ Budget /\ Event("click", "cell")
  \/ \E i \in 1..Len(DEFAULT_EVENTS) : ChipClick(DEFAULT_EVENTS[i]) /\ Budget /\ Event("click", "chip")
  \/ AddEventClick /\ Budget /\ Event("click", "add")
  \/ \E key \in Keys : handleKeyDown(key) /\ Budget /\ Event("keydown", NoString)
  \/ \E id \in RectIds : handleRectDoubleClick(id) /\ Budget /\ Event("dblclick", NoString)
  \/ \E id \in RectIds, text \in Texts :
       handleTextChange(id, text) /\ Budget /\ Event("change", NoString)
  \/ TextBlur /\ Budget /\ Event("blur", NoString)
  \/ \E id \in RectIds : DeleteButtonClick(id) /\ Budget /\ Event("click", "delete")
  \/ CloseDayModal /\ Budget /\ Event("close", "day")
  \/ CloseEventModal /\ Budget /\ Event("close", "event")
  \/ FocusInput /\ Budget /\ Event("focus", NoString)

Spec == Init /\ [][Next]_vars

\* ---------------------------------------------------------------- view
\* The view alone: wheel zooms and pans at several points, the zoom
\* buttons, the reset and pan drags.
ViewBudget == Within(ViewMaxZooms, ViewMaxPans, 0, 0)

NextView ==
  \/ \E dy \in WheelDeltas, p \in ViewPoints :
       handleWheel(TRUE, 0, dy, p) /\ ViewBudget /\ Event("wheel", "ctrl")
  \/ \E dx \in PanDeltas, dy \in PanDeltas, p \in OnePoint :
       handleWheel(FALSE, dx, dy, p) /\ ViewBudget /\ Event("wheel", NoString)
  \/ zoomIn /\ ViewBudget /\ Event("zoomIn", NoString)
  \/ zoomOut /\ ViewBudget /\ Event("zoomOut", NoString)
  \/ resetView /\ ViewBudget /\ Event("resetView", NoString)
  \/ \E p \in FewPoints : CanvasPointerDown(p, 0) /\ ViewBudget /\ Event("pointerdown", NoString)
  \/ \E p \in FewPoints : handlePointerMove(p) /\ ViewBudget /\ Continuous
  \/ PointerUp /\ ViewBudget /\ Event("pointerup", NoString)

SpecView == Init /\ [][NextView]_vars

\* ----------------------------------------------------------- rectangles
\* Drawing, moving and resizing, with every handle and with drags in both
\* directions, below, at and above the minimum size.
RectBudget == Within(0, 0, RectMaxEdits, RectMaxRects)

NextRect ==
  \/ \E m \in {"pan", "rectangle"} : setMode(m) /\ RectBudget /\ Event("modeButton", m)
  \/ \E p \in RectPoints : CanvasPointerDown(p, 0) /\ RectBudget /\ Event("pointerdown", NoString)
  \/ \E id \in RectIds, h \in Handles \cup {NoString}, p \in RectPoints :
       handleRectPointerDown(id, h, p) /\ RectBudget /\ Event("rectpointerdown", h)
  \/ \E p \in RectPoints : handlePointerMove(p) /\ RectBudget /\ Continuous
  \/ Render /\ RectBudget /\ Continuous
  \/ PointerUp /\ RectBudget /\ Event("pointerup", NoString)

SpecRect == Init /\ [][NextRect]_vars

\* --------------------------------------------------------------- clicks
\* Presses on a cell, a chip or the add card, with the pointer moved in
\* small steps along a line before the release.
ClickBudget == Within(0, ClickMaxPans, 0, 0)

NextClick ==
  \/ \E m \in {"pan", "select"} : setMode(m) /\ ClickBudget /\ Event("modeButton", m)
  \/ \E c \in TwoCells, part \in CellParts, p \in ClickStart :
       /\ handleCellPointerDown(c, part, p, FALSE, 0) /\ ClickBudget
       /\ Event("cellpointerdown", NoString)
  \/ \E p \in ClickPoints : handlePointerMove(p) /\ ClickBudget /\ Continuous
  \/ PointerUp /\ ClickBudget /\ Event("pointerup", NoString)
  \/ CellClick /\ ClickBudget /\ Event("click", "cell")
  \/ \E i \in 1..Len(DEFAULT_EVENTS) :
       ChipClick(DEFAULT_EVENTS[i]) /\ ClickBudget /\ Event("click", "chip")
  \/ AddEventClick /\ ClickBudget /\ Event("click", "add")
  \/ CloseDayModal /\ ClickBudget /\ Event("close", "day")
  \/ CloseEventModal /\ ClickBudget /\ Event("close", "event")

SpecClick == Init /\ [][NextClick]_vars

\* ------------------------------------------------------------ selection
\* Marquee selections over three dates, in every mode, with and without
\* the shift key.
SelectBudget == Within(0, 0, 0, RectMaxRects)

NextSelect ==
  \/ \E m \in Modes : setMode(m) /\ SelectBudget /\ Event("modeButton", m)
  \/ \E c \in Cells, p \in OnePoint, shiftKey \in BOOLEAN, b \in Buttons :
       /\ handleCellPointerDown(c, "cell", p, shiftKey, b) /\ SelectBudget
       /\ Event("cellpointerdown", ShiftArg(shiftKey))
  \/ \E c \in Cells : handleCellPointerEnter(c) /\ SelectBudget /\ Continuous
  \/ Render /\ SelectBudget /\ Continuous
  \/ PointerUp /\ SelectBudget /\ Event("pointerup", NoString)
  \/ CellClick /\ SelectBudget /\ Event("click", "cell")
  \/ CloseDayModal /\ SelectBudget /\ Event("close", "day")
  \/ CloseEventModal /\ SelectBudget /\ Event("close", "event")

SpecSelect == Init /\ [][NextSelect]_vars

\* ------------------------------------------------------------- keyboard
\* Every key in every focus: the forms' fields, a rectangle's label, the
\* page.  The view is left alone.
KeysBudget == Within(0, 0, 0, KeysMaxRects)

NextKeys ==
  \/ \E p \in OnePoint : CanvasPointerDown(p, 0) /\ KeysBudget /\ Event("pointerdown", NoString)
  \/ \E c \in TwoCells, p \in OnePoint :
       /\ handleCellPointerDown(c, "cell", p, FALSE, 0) /\ KeysBudget
       /\ Event("cellpointerdown", NoString)
  \/ \E p \in MovePoints : handlePointerMove(p) /\ KeysBudget /\ Continuous
  \/ Render /\ KeysBudget /\ Continuous
  \/ PointerUp /\ KeysBudget /\ Event("pointerup", NoString)
  \/ CellClick /\ KeysBudget /\ Event("click", "cell")
  \/ \E key \in Keys : handleKeyDown(key) /\ KeysBudget /\ Event("keydown", key)
  \/ \E id \in RectIds : handleRectDoubleClick(id) /\ KeysBudget /\ Event("dblclick", NoString)
  \/ \E id \in RectIds, text \in Texts :
       handleTextChange(id, text) /\ KeysBudget /\ Event("change", NoString)
  \/ TextBlur /\ KeysBudget /\ Event("blur", NoString)
  \/ CloseDayModal /\ KeysBudget /\ Event("close", "day")
  \/ FocusInput /\ KeysBudget /\ Event("focus", NoString)

SpecKeys == Init /\ [][NextKeys]_vars

\* ------------------------------------------------------------------ grid
\* The cells of the whole grid, one rendered at a time, for event lists of
\* up to five events, several of them over the same dates; and on the board
\* without events presses on the rendered cell of the February row (its own
\* handler if it has one, otherwise the container's), and the pointer
\* entering cells at the end of February.
GridEvent(i, range) ==
  [id |-> <<"e1", "e2", "e3", "e4", "e5", "e6">>[i], title |-> "t",
   startDate |-> formatDateISO(range[1][1], range[1][2]),
   endDate |-> formatDateISO(range[2][1], range[2][2])]

GridEventLists ==
  UNION {{[i \in 1..n |-> GridEvent(i, f[i])] : f \in [1..n -> GridRanges]} :
         n \in 0..MaxGridEvents}

InitGrid ==
  /\ InitCanvas
  /\ store = "local"
  /\ days = DEFAULT_DAYS
  /\ events \in GridEventLists
  /\ InitSession

PressesExplored == cell # NULL /\ events = <<>> /\ cell.monthIndex = 1
GridBudget == PressesExplored /\ Within(0, 0, 0, 0)

NextGrid ==
  \/ \E monthIndex \in MonthIndexes, dayNum \in DayColumns :
       /\ cell = NULL
       /\ RenderCell(monthIndex, dayNum) /\ Input("render", NoString)
  \/ \E m \in {"pan", "select"} :
       setMode(m) /\ GridBudget /\ Event("modeButton", m)
  \/ \E p \in OnePoint, shiftKey \in BOOLEAN :
       /\ PressesExplored
       /\ handleCellPointerDown(<<cell.monthIndex, cell.dayNum>>, "cell", p, shiftKey, 0)
       /\ GridBudget /\ Event("cellpointerdown", ShiftArg(shiftKey))
  \/ \E p \in OnePoint :
       /\ PressesExplored /\ ~cell.interactive
       /\ CanvasPointerDown(p, 0) /\ GridBudget /\ Event("pointerdown", NoString)
  \/ \E c \in GridCells : handleCellPointerEnter(c) /\ GridBudget /\ Continuous
  \/ Render /\ GridBudget /\ Continuous
  \/ PointerUp /\ GridBudget /\ Event("pointerup", NoString)
  \/ CellClick /\ GridBudget /\ Event("click", "cell")
  \/ CloseDayModal /\ GridBudget /\ Event("close", "day")

SpecGrid == InitGrid /\ [][NextGrid]_vars

\* ================================================================= owner
\* The owner's data operations.  In the remote App each one changes the
\* state and then awaits a call of supabaseService; the awaited call is
\* kept in `inflight` until Settle delivers its outcome to the handler.
Stores == {"local", "remote"}
DayKeys == {formatDateISO(0, 1), formatDateISO(1, 14)}
DayTitles == {"A", "B"}
Moods == {"", "bad"}
Outcomes == {"ok", "error", "throws"}

Call(by, op, date, id) ==
  [by |-> by, op |-> op, date |-> date, id |-> id, rect |-> NULL]

\* A call that carries a rectangle.
RectCall(by, op, rect) == [Call(by, op, NULL, rect.id) EXCEPT !.rect = rect]

\* The remote handlers' `await supabaseService.op(...)`; the local App has
\* no such call.
Persist(call) ==
  inflight' = IF store = "remote" THEN Append(inflight, call) ELSE inflight

\* What an owner's handler leaves alone of the canvas, and the render that
\* follows its state change.
OwnerRender(type, arg) ==
  /\ Input(type, arg)
  /\ emitted' = <<>>
  /\ UNCHANGED <<canvasVars, cell, store>>
  /\ SessionRender
  /\ Commit

OwnerInput(type, arg) == OwnerRender(type, arg) /\ UNCHANGED remote

OwnerStep(type) == OwnerInput(type, NoString)

\* The day entry stored alone.
ReplaceDays(d, entry) == DaysValue("object", entry.date :> entry)

\* { ...prev.days, [entry.date]: entry }
saveDayEntry(d, entry) ==
  DaysValue("object", [k \in (DOMAIN d.map) \cup {entry.date} |->
                         IF k = entry.date THEN entry ELSE d.map[k]])

\* const newDays = { ...prev.days }; delete newDays[dateStr]
deleteDayEntry(d, dateStr) ==
  DaysValue("object", [k \in (DOMAIN d.map) \ {dateStr} |-> d.map[k]])

handleDayClick(dateStr) ==
  /\ ~isDayModalOpen /\ ~isEventModalOpen
  /\ selectedDate' = dateStr
  /\ isDayModalOpen' = TRUE
  /\ alerted' = <<>>
  /\ UNCHANGED <<days, events, rectangles, form, inflight, isEventModalOpen>>
  /\ OwnerStep("dayClick")

\* The day modal's save button: onSave(entry); onClose().
handleSaveDay(title, mood) ==
  /\ isDayModalOpen /\ selectedDate # NULL
  /\ LET entry == DayEntry(selectedDate, title, mood) IN
       /\ days' = saveDayEntry(days, entry)
       /\ Persist(Call("saveDayEntry", "saveDay", entry.date, NoString))
  /\ isDayModalOpen' = FALSE
  /\ alerted' = <<>>
  /\ UNCHANGED <<events, rectangles, form, selectedDate, isEventModalOpen>>
  /\ OwnerStep("saveDay")

\* The day modal's delete button, confirmed: onDelete(dateStr); onClose().
handleDeleteDay ==
  /\ isDayModalOpen /\ selectedDate # NULL
  /\ days' = deleteDayEntry(days, selectedDate)
  /\ Persist(Call("deleteDayEntry", "deleteDay", selectedDate, NoString))
  /\ isDayModalOpen' = FALSE
  /\ alerted' = <<>>
  /\ UNCHANGED <<events, rectangles, form, selectedDate, isEventModalOpen>>
  /\ OwnerStep("deleteDay")

\* onClose of the day modal (its close button, the backdrop, Escape).
onCloseDay ==
  /\ isDayModalOpen
  /\ isDayModalOpen' = FALSE
  /\ alerted' = <<>>
  /\ UNCHANGED <<days, events, rectangles, form, inflight, selectedDate,
                 isEventModalOpen>>
  /\ OwnerStep("closeDay")

\* The handlers whose catch block only writes to the console.
SilentHandlers == {"handleUpdateRectangle", "handleDeleteRectangle"}

\* The settled call issued again.
Reissued(seq, i) == SubSeq(seq, 1, i - 1) \o SubSeq(seq, i + 1, Len(seq)) \o <<seq[i]>>

RemoveAt(seq, i) == SubSeq(seq, 1, i - 1) \o SubSeq(seq, i + 1, Len(seq))

\* The table canvas_rectangles after the store has carried out the call:
\* upsert replaces the row of the same id or adds one, delete removes the
\* row of the id, resetAllData removes every row.
Stored(table, call) ==
  IF call.op = "saveRectangle"
    THEN {row \in table : row.id # call.rect.id} \cup {call.rect}
  ELSE IF call.op = "deleteRectangle" THEN {row \in table : row.id # call.id}
  ELSE IF call.op = "resetAllData" THEN {}
  ELSE table

\* An awaited call settles and its handler resumes: the call fulfils with
\* {error: null} ("ok"), fulfils with {error} ("error"), or rejects
\* ("throws").  Every handler but handleReset throws the returned error
\* into its catch block; resetAllData drops the three responses, so that
\* handleReset sees a failure only as a rejection.
Settle(i, outcome) ==
  LET call == inflight[i] IN
  /\ inflight' = RemoveAt(inflight, i)
  /\ IF call.by = "handleReset"
       THEN IF outcome = "throws"
              THEN /\ alerted' = <<"Error al borrar datos">>
                   /\ UNCHANGED <<days, events, rectangles>>
              ELSE /\ days' = NoDays
                   /\ events' = <<>>
                   /\ rectangles' = <<>>
                   /\ alerted' = <<>>
       ELSE /\ alerted' = IF outcome = "ok" \/ call.by \in SilentHandlers
                            THEN <<>>
                            ELSE <<"Error: " \o call.by>>
            /\ UNCHANGED <<days, events, rectangles>>
  /\ remote' = IF outcome = "ok" THEN Stored(remote, call) ELSE remote
  /\ UNCHANGED <<form, selectedDate, isDayModalOpen, isEventModalOpen>>
  /\ OwnerRender("settle", outcome)

\* ------------------------------------------------------------------ days
\* Day entries saved and deleted under both owners, with the repository
\* answering in any order.
MaxInflight == 2

InitDays ==
  /\ InitCanvas
  /\ store \in Stores
  /\ days = DEFAULT_DAYS
  /\ events = DEFAULT_EVENTS
  /\ InitSession

NextDays ==
  \/ \E dateStr \in DayKeys : handleDayClick(dateStr)
  \/ \E title \in DayTitles, mood \in Moods :
       Len(inflight) < MaxInflight /\ handleSaveDay(title, mood)
  \/ Len(inflight) < MaxInflight /\ handleDeleteDay
  \/ onCloseDay
  \/ \E i \in 1..Len(inflight), outcome \in Outcomes : Settle(i, outcome)

SpecDays == InitDays /\ [][NextDays]_vars

\* ---------------------------------------------------------------- import
\* The text of an import file by what JSON.parse makes of it: not JSON
\* ("invalid"), the value null, an object, or another value (a number, a
\* string, an array: no property `days`).  A property is a JavaScript value
\* given by its kind and, for an object or an array, its content.
JsonValue(kind, items) == [kind |-> kind, items |-> items]
Absent == JsonValue("absent", <<>>)
Payload(json, d, e, r) == [json |-> json, days |-> d, events |-> e, rectangles |-> r]

\* The kinds of value JavaScript takes for false in a condition: undefined,
\* null, 0, "" and false.
Falsy == {"absent", "null", "zero", "empty", "false"}
Truthy(kind) == kind \notin Falsy

\* The kind an object has, taken for the test of a mapping.
IsObject(kind) == kind = "object"

ImportOk == "Importacion exitosa."
ImportInvalid == "Formato de archivo invalido."
ImportUnreadable == "Error al leer el archivo JSON."
ImportDisabled == "La importacion masiva esta deshabilitada temporalmente"

\* reader.onload of the local owner's handleImport; the remote owner's
\* handleImport only tells that importing is disabled.
handleImport(payload) ==
  /\ ~isDayModalOpen /\ ~isEventModalOpen
  /\ IF store = "remote"
       THEN /\ alerted' = <<ImportDisabled>>
            /\ UNCHANGED <<days, events, rectangles>>
       ELSE IF payload.json \in {"invalid", "null"}
       THEN \* JSON.parse throws, or parsed.days does on null
            /\ alerted' = <<ImportUnreadable>>
            /\ UNCHANGED <<days, events, rectangles>>
       ELSE IF Truthy(payload.days.kind) /\ payload.events.kind = "array"
       THEN /\ days' = payload.days
            /\ events' = payload.events.items
            /\ rectangles' = IF Truthy(payload.rectangles.kind)
                               THEN payload.rectangles.items ELSE <<>>
            /\ alerted' = <<ImportOk>>
       ELSE /\ alerted' = <<ImportInvalid>>
            /\ UNCHANGED <<days, events, rectangles>>
  /\ UNCHANGED <<form, selectedDate, inflight, isDayModalOpen, isEventModalOpen>>
  /\ OwnerStep("import")

\* The toolbar's reset button, confirmed.  The local owner empties the data;
\* the remote owner awaits resetAllData first and empties the data when it
\* resumes (Settle).
handleReset ==
  /\ ~isDayModalOpen /\ ~isEventModalOpen
  /\ IF store = "remote"
       THEN /\ inflight' = Append(inflight, Call("handleReset", "resetAllData", NULL, NoString))
            /\ UNCHANGED <<days, events, rectangles>>
       ELSE /\ days' = NoDays
            /\ events' = <<>>
            /\ rectangles' = <<>>
            /\ UNCHANGED inflight
  /\ alerted' = <<>>
  /\ UNCHANGED <<form, selectedDate, isDayModalOpen, isEventModalOpen>>
  /\ OwnerStep("reset")

\* Import files: every kind of text, `days` and `events` of every kind,
\* `rectangles` absent, null or an array.
ImportDays ==
  {DaysValue(kind, <<>>) : kind \in {"absent", "null", "zero", "array", "text"}}
    \cup {NoDays, DEFAULT_DAYS,
          DaysValue("object", formatDateISO(1, 14) :> DayEntry(formatDateISO(1, 14), "B", ""))}
ImportEvents ==
  {JsonValue(kind, <<>>) : kind \in {"absent", "null", "object", "text"}}
    \cup {JsonValue("array", items) : items \in {<<>>, DEFAULT_EVENTS, <<DEFAULT_EVENTS[2]>>}}
ImportRectangles ==
  {Absent, JsonValue("null", <<>>), JsonValue("array", <<>>),
   JsonValue("array", <<Rect("r1", R(0), R(0), R(100), R(50), "")>>)}
Payloads ==
  {Payload(json, Absent, Absent, Absent) : json \in {"invalid", "null", "other"}}
    \cup {Payload("object", d, e, r) :
            d \in ImportDays, e \in ImportEvents, r \in ImportRectangles}

InitImport ==
  /\ InitCanvas
  /\ store \in Stores
  /\ days = DEFAULT_DAYS
  /\ events = DEFAULT_EVENTS
  /\ InitSession

NextImport ==
  \/ \E payload \in Payloads : handleImport(payload)
  \/ \E dateStr \in DayKeys : handleDayClick(dateStr)
  \/ \E title \in DayTitles, mood \in Moods :
       Len(inflight) < MaxInflight /\ handleSaveDay(title, mood)
  \/ Len(inflight) < MaxInflight /\ handleReset
  \/ \E i \in 1..Len(inflight), outcome \in Outcomes : Settle(i, outcome)

SpecImport == InitImport /\ [][NextImport]_vars

\* ---------------------------------------------------------------- events
\* `${year}-${month}-${day}` for any year, as character codes.
DateText(year, month, day) ==
  <<48 + (year \div 1000), 48 + ((year \div 100) % 10), 48 + ((year \div 10) % 10),
    48 + (year % 10), 45>> \o Pad2(month) \o <<45>> \o Pad2(day)

\* startDate.startsWith(String(YEAR))
StartsWithYear(dateStr) ==
  Len(dateStr) >= 4 /\ SubSeq(dateStr, 1, 4) = SubSeq(DateText(YEAR, 1, 1), 1, 4)

\* The palette of event colours, and the colour of an event without category.
EVENT_COLORS ==
  <<"#ef4444", "#f97316", "#eab308", "#22c55e", "#06b6d4", "#3b82f6", "#8b5cf6",
    "#ec4899">>
NeutralColor == "#000000"
Undefined == "undefined"

\* A JavaScript number holding an integer, as <<hi, lo>>: hi * 2^16 + lo with
\* lo in 0 .. 2^16 - 1.  The hash leaves the 32-bit range, which only the
\* shift brings it back into.
Half == 65536
Wide(hi, lo) == <<hi + (lo \div Half), lo % Half>>
Signed16(n) == IF n % Half >= Half \div 2 THEN (n % Half) - Half ELSE n % Half

\* ToInt32: the number modulo 2^32, as a signed 32-bit integer.
ToInt32(n) == <<Signed16(n[1]), n[2]>>

\* hash << 5: the operand taken as a 32-bit integer, the result one too.
ShiftLeft5(n) ==
  LET i == ToInt32(n)
  IN  <<Signed16(i[1] * 32 + ((i[2] * 32) \div Half)), (i[2] * 32) % Half>>

WideSub(a, b) == Wide(a[1] - b[1], a[2] - b[2])
WideAdd(code, n) == Wide(n[1], n[2] + code)

\* hash after the loop over the characters of str (a sequence of char codes)
RECURSIVE HashOf(_)
HashOf(str) ==
  IF str = <<>> THEN <<0, 0>>
  ELSE LET hash == HashOf(SubSeq(str, 1, Len(str) - 1))
       IN  WideAdd(str[Len(str)], WideSub(ShiftLeft5(hash), hash))

\* The remainder of n by the palette's length, with the sign of n (JavaScript's %).
SignedIndex(n) ==
  IF n[1] < 0 THEN -((Len(EVENT_COLORS) - (n[2] % Len(EVENT_COLORS))) % Len(EVENT_COLORS))
  ELSE n[2] % Len(EVENT_COLORS)

\* Math.abs(hash) % EVENT_COLORS.length
PaletteIndex(n) ==
  IF n[1] < 0 THEN (Len(EVENT_COLORS) - (n[2] % Len(EVENT_COLORS))) % Len(EVENT_COLORS)
  ELSE n[2] % Len(EVENT_COLORS)

\* EVENT_COLORS[index]: undefined outside the array
ColorAt(index) ==
  IF index \in 0..(Len(EVENT_COLORS) - 1) THEN EVENT_COLORS[index + 1] ELSE Undefined

\* A colour picked by the signed remainder.
stringToColorSigned(str) == ColorAt(SignedIndex(HashOf(str)))

stringToColor(str) == ColorAt(PaletteIndex(HashOf(str)))

\* String.prototype.trim() on a sequence of char codes
RECURSIVE trimStart(_)
trimStart(str) ==
  IF str # <<>> /\ str[1] = 32 THEN trimStart(Tail(str)) ELSE str
RECURSIVE trimEnd(_)
trimEnd(str) ==
  IF str # <<>> /\ str[Len(str)] = 32 THEN trimEnd(SubSeq(str, 1, Len(str) - 1))
  ELSE str
trimText(str) == trimEnd(trimStart(str))

\* The categories typed or picked in the form: none, blanks, a tag's id, a
\* label with blanks around it, and labels whose hash leaves the 32-bit range
\* and is negative.
Categories ==
  {<<>>, <<32, 32>>, <<119, 111, 114, 107>>, <<32, 119, 111, 114, 107, 32>>,
   <<116, 114, 97, 118, 101, 108>>, <<97, 98, 99, 100, 101, 102, 103>>}

\* An event without category, as an import may bring it.
CalendarEvent(id, title, startDate, endDate) ==
  [id |-> id, title |-> title, startDate |-> startDate, endDate |-> endDate,
   category |-> <<>>, color |-> NeutralColor]

\* What the user may type as a name, and String.prototype.trim() on it.
Names == {" ", "Ana"}
trim(name) == IF name = " " THEN "" ELSE name

\* The days a DatePicker offers are days of YEAR.
PickerDates == {formatDateISO(0, 1), formatDateISO(2, 6)}

\* generateId(): an id not in use
EventIds == {"n1"}
FreshEventIds == {id \in EventIds : \A i \in 1..Len(events) : events[i].id # id}

saveEvent(evts, evt) ==
  IF \E i \in 1..Len(evts) : evts[i].id = evt.id
    THEN [i \in 1..Len(evts) |-> IF evts[i].id = evt.id THEN evt ELSE evts[i]]
    ELSE Append(evts, evt)

deleteEvent(evts, eventId) == SelectSeq(evts, LAMBDA e : e.id # eventId)

\* The event modal's effect on opening: the fields taken from the event being
\* edited, or the defaults of a new event from the initial dates.
OpenForm(editingEvent, initialDate, initialEndDate) ==
  IF editingEvent # NULL
    THEN [editingEvent |-> editingEvent, name |-> editingEvent.title,
          startDate |-> editingEvent.startDate,
          endDate |-> IF editingEvent.endDate = editingEvent.startDate
                        THEN <<>> ELSE editingEvent.endDate,
          category |-> editingEvent.category,
          error |-> ""]
    ELSE LET defaultDate == IF initialDate # NULL THEN initialDate
                            ELSE formatDateISO(0, 1)
         IN [editingEvent |-> NULL, name |-> "", startDate |-> defaultDate,
             endDate |-> IF initialEndDate # NULL /\ initialEndDate # defaultDate
                           THEN initialEndDate ELSE <<>>,
             category |-> <<>>,
             error |-> ""]

\* An owner's handler that opens the event modal.
OpenEventModal(type, editingEvent, initialDate, initialEndDate) ==
  /\ ~isEventModalOpen
  /\ form' = OpenForm(editingEvent, initialDate, initialEndDate)
  /\ isEventModalOpen' = TRUE
  /\ alerted' = <<>>
  /\ UNCHANGED <<days, events, rectangles, inflight, selectedDate>>
  /\ OwnerStep(type)

handleNewEvent ==
  /\ ~isDayModalOpen
  /\ UNCHANGED isDayModalOpen
  /\ OpenEventModal("newEvent", NULL, NULL, NULL)

handleRangeSelect(startStr, endStr) ==
  /\ ~isDayModalOpen
  /\ UNCHANGED isDayModalOpen
  /\ OpenEventModal("rangeSelect", NULL, startStr, endStr)

handleAddEventFromDay(dateStr) ==
  /\ isDayModalOpen' = FALSE
  /\ OpenEventModal("addEvent", NULL, dateStr, NULL)

handleEventClick(evt) ==
  /\ isDayModalOpen' = FALSE
  /\ OpenEventModal("eventClick", evt, NULL, NULL)

\* A change of one of the form's fields.
FormStep(type, next) ==
  /\ isEventModalOpen
  /\ form' = next
  /\ alerted' = <<>>
  /\ UNCHANGED <<days, events, rectangles, inflight, selectedDate, isDayModalOpen,
                 isEventModalOpen>>
  /\ OwnerStep(type)

setName(name) == FormStep("name", [form EXCEPT !.name = name])

\* The start picker offers the days from `${YEAR}-01-01` to `${YEAR}-12-31`,
\* the end picker those from the start date on.
setStartDate(dateStr) == FormStep("startDate", [form EXCEPT !.startDate = dateStr])

setEndDate(dateStr) ==
  /\ ~StrLt(dateStr, form.startDate)
  /\ FormStep("endDate", [form EXCEPT !.endDate = dateStr])

\* The category field: a tag picked or a label typed.
setCategory(category) == FormStep("category", [form EXCEPT !.category = category])

NameRequired == "El nombre es obligatorio."
EndBeforeStart == "La fecha de fin no puede ser anterior a la de inicio."
OutsideYear == "Las fechas deben ser del anio."

finalEndDate == IF form.endDate # <<>> THEN form.endDate ELSE form.startDate

\* The validations of handleSubmit, in its order: the error to show, or ""
\* when the form passes.
SubmitError ==
  IF trim(form.name) = "" THEN NameRequired
  ELSE IF StrLt(finalEndDate, form.startDate) THEN EndBeforeStart
  ELSE IF ~StartsWithYear(form.startDate) THEN OutsideYear
  ELSE ""

\* newEvent of handleSubmit
NewEvent(id) ==
  LET catTrimmed == trimText(form.category)
  IN  [id |-> id, title |-> form.name, startDate |-> form.startDate,
       endDate |-> finalEndDate, category |-> catTrimmed,
       color |-> IF catTrimmed # <<>> THEN stringToColor(catTrimmed) ELSE NeutralColor]

\* The form's submit button: setError and return, or onSave(newEvent) and
\* onClose().
handleSubmit ==
  /\ isEventModalOpen
  /\ IF SubmitError # ""
       THEN /\ form' = [form EXCEPT !.error = SubmitError]
            /\ UNCHANGED <<events, inflight, isEventModalOpen>>
       ELSE \E id \in IF form.editingEvent # NULL THEN {form.editingEvent.id}
                      ELSE FreshEventIds :
              /\ events' = saveEvent(events, NewEvent(id))
              /\ Persist(Call("saveEvent", "saveEvent", NULL, id))
              /\ isEventModalOpen' = FALSE
              /\ UNCHANGED form
  /\ alerted' = <<>>
  /\ UNCHANGED <<days, rectangles, selectedDate, isDayModalOpen>>
  /\ OwnerStep("submit")

\* The form's delete button, confirmed: onDelete(editingEvent.id); onClose().
handleDelete ==
  /\ isEventModalOpen /\ form.editingEvent # NULL
  /\ events' = deleteEvent(events, form.editingEvent.id)
  /\ Persist(Call("deleteEvent", "deleteEvent", NULL, form.editingEvent.id))
  /\ isEventModalOpen' = FALSE
  /\ alerted' = <<>>
  /\ UNCHANGED <<days, rectangles, form, selectedDate, isDayModalOpen>>
  /\ OwnerStep("deleteEvent")

\* onClose of the event modal (Cancel, its close button, the backdrop, Escape).
onCloseEvent ==
  /\ isEventModalOpen
  /\ isEventModalOpen' = FALSE
  /\ alerted' = <<>>
  /\ UNCHANGED <<days, events, rectangles, form, inflight, selectedDate, isDayModalOpen>>
  /\ OwnerStep("closeEvent")

\* ------------------------------------------------------------------ form
\* The event form under both owners: opened from the toolbar, a range, a day
\* and an event; its fields edited; submitted, deleted and cancelled.  The
\* local owner's data may come from an import file, whose events the import
\* takes as they are.
NewYearsEve == CalendarEvent("evt_9", "Fiesta", DateText(YEAR, 12, 31), DateText(YEAR + 1, 1, 1))
FormPayloads == {Payload("object", NoDays, JsonValue("array", <<NewYearsEve>>), Absent)}

InitForm ==
  /\ InitCanvas
  /\ store \in Stores
  /\ days = DEFAULT_DAYS
  /\ events = <<DEFAULT_EVENTS[2]>>
  /\ InitSession

\* The form is explored on the events as loaded or imported: up to the first
\* change of the collection, with a bounded number of calls awaited.
FormBudget ==
  /\ events \in {<<DEFAULT_EVENTS[2]>>, <<NewYearsEve>>}
  /\ Len(inflight) < MaxInflight

NextForm ==
  \/ \E payload \in FormPayloads : FormBudget /\ handleImport(payload)
  \/ FormBudget /\ handleNewEvent
  \/ FormBudget /\ handleRangeSelect(formatDateISO(2, 6), formatDateISO(2, 6))
  \/ FormBudget /\ handleRangeSelect(formatDateISO(0, 1), formatDateISO(2, 6))
  \/ FormBudget /\ handleDayClick(formatDateISO(2, 6))
  \/ FormBudget /\ isDayModalOpen /\ handleAddEventFromDay(selectedDate)
  \/ \E i \in 1..Len(events) : FormBudget /\ handleEventClick(events[i])
  \/ \E name \in Names : FormBudget /\ setName(name)
  \/ \E dateStr \in PickerDates : FormBudget /\ setStartDate(dateStr)
  \/ \E dateStr \in PickerDates : FormBudget /\ setEndDate(dateStr)
  \/ FormBudget /\ handleSubmit
  \/ FormBudget /\ handleDelete
  \/ onCloseEvent
  \/ \E i \in 1..Len(inflight), outcome \in Outcomes : Settle(i, outcome)

SpecForm == InitForm /\ [][NextForm]_vars

\* ---------------------------------------------------------------- colour
\* The category of the form: a new event and the loaded one are given a
\* category and saved, again and again.
ColorBudget == Len(inflight) < MaxInflight

NextColor ==
  \/ ColorBudget /\ handleNewEvent
  \/ \E i \in 1..Len(events) : ColorBudget /\ handleEventClick(events[i])
  \/ ColorBudget /\ setName("Ana")
  \/ \E category \in Categories : ColorBudget /\ setCategory(category)
  \/ ColorBudget /\ handleSubmit
  \/ onCloseEvent
  \/ \E i \in 1..Len(inflight), outcome \in Outcomes : Settle(i, outcome)

SpecColor == InitForm /\ [][NextColor]_vars

\* ---------------------------------------------------------------- remote
\* The owner's rectangle handlers as the canvas invokes them (onAddRectangle,
\* onUpdateRectangle, onDeleteRectangle).
onAddRectangle(rect) ==
  /\ ~isDayModalOpen /\ ~isEventModalOpen
  /\ rectangles' = handleAddRectangle(rectangles, rect)
  /\ Persist(RectCall("handleAddRectangle", "saveRectangle", rect))
  /\ alerted' = <<>>
  /\ UNCHANGED <<days, events, form, selectedDate, isDayModalOpen, isEventModalOpen>>
  /\ OwnerStep("addRectangle")

onUpdateRectangle(rect) ==
  /\ ~isDayModalOpen /\ ~isEventModalOpen
  /\ rectangles' = handleUpdateRectangle(rectangles, rect)
  /\ Persist(RectCall("handleUpdateRectangle", "saveRectangle", rect))
  /\ alerted' = <<>>
  /\ UNCHANGED <<days, events, form, selectedDate, isDayModalOpen, isEventModalOpen>>
  /\ OwnerStep("updateRectangle")

onDeleteRectangle(id) ==
  /\ ~isDayModalOpen /\ ~isEventModalOpen
  /\ HasRect(rectangles, id)
  /\ rectangles' = handleDeleteRectangle(rectangles, id)
  /\ Persist(Call("handleDeleteRectangle", "deleteRectangle", NULL, id))
  /\ alerted' = <<>>
  /\ UNCHANGED <<days, events, form, selectedDate, isDayModalOpen, isEventModalOpen>>
  /\ OwnerStep("deleteRectangle")

\* Every mutation of the remote owner, with the repository answering each
\* call in any order with success, an error or a rejection.
RemoteDate == formatDateISO(1, 14)
RemoteRects == {Rect("r1", R(0), R(0), R(100), R(50), ""),
                Rect("r1", R(10), R(0), R(100), R(50), "")}

InitRemote ==
  /\ InitCanvas
  /\ store = "remote"
  /\ days = DEFAULT_DAYS
  /\ events = <<DEFAULT_EVENTS[2]>>
  /\ InitSession

RemoteBudget == Len(inflight) < MaxInflight

NextRemote ==
  \/ RemoteBudget /\ handleDayClick(RemoteDate)
  \/ RemoteBudget /\ handleSaveDay("B", "")
  \/ RemoteBudget /\ handleDeleteDay
  \/ RemoteBudget /\ handleNewEvent
  \/ \E i \in 1..Len(events) : RemoteBudget /\ handleEventClick(events[i])
  \/ RemoteBudget /\ setName("Ana")
  \/ RemoteBudget /\ handleSubmit
  \/ RemoteBudget /\ handleDelete
  \/ \E rect \in RemoteRects :
       RemoteBudget /\ ~HasRect(rectangles, rect.id) /\ onAddRectangle(rect)
  \/ \E rect \in RemoteRects : RemoteBudget /\ onUpdateRectangle(rect)
  \/ \E id \in RectIds : RemoteBudget /\ onDeleteRectangle(id)
  \/ RemoteBudget /\ handleReset
  \/ \E i \in 1..Len(inflight), outcome \in Outcomes : Settle(i, outcome)

SpecRemote == InitRemote /\ [][NextRemote]_vars

\* -------------------------------------------------------------- profiles
\* The local owner's profiles: created, logged in and out and deleted from
\* the profile selector, with edits of the data in between; the effects of
\* each render run with it, and the render they ask for is a step of its own.
ProfileIds == {"A", "B"}
ProfileRects == {Rect("r1", R(0), R(0), R(100), R(50), "")}

\* { ...DEFAULT_DATA, rectangles: [] }
FreshData == AppData(DEFAULT_DAYS, DEFAULT_EVENTS, <<>>)

\* The profile selector is shown / the board of a loaded profile is shown.
SelectorShown == session.currentUser = NoString /\ ~session.pending
BoardShown == session.currentUser # NoString /\ session.isDataLoaded /\ ~session.pending

\* The canvas is mounted anew, its state and refs at their initial values.
CanvasMounts ==
  /\ transformRef' = InitialTransform
  /\ mode' = "pan"
  /\ selectionRange' = NULL
  /\ selectedRectId' = NoString
  /\ editingTextId' = NoString
  /\ currentRect' = NULL
  /\ isDragging' = FALSE
  /\ isSelecting' = FALSE
  /\ isDrawingRect' = FALSE
  /\ rectInteraction' = NULL
  /\ lastPos' = [x |-> 0, y |-> 0]
  /\ rectStartPos' = [x |-> R(0), y |-> R(0)]
  /\ hasMoved' = FALSE
  /\ selectionStartRef' = NULL
  /\ pointer' = NoPointer
  /\ focus' = "body"
  /\ gesture' = NoGesture
  /\ rendered' = Snapshot("pan", NULL, NoString, NoString, NULL, rectangles')
  /\ UNCHANGED used

\* What a step on the profiles leaves alone.
ProfileStep(type, arg) ==
  /\ Input(type, arg)
  /\ emitted' = <<>>
  /\ alerted' = <<>>
  /\ UNCHANGED <<isDayModalOpen, isEventModalOpen, cell, form, inflight, store, remote,
                 selectedDate>>

\* setCurrentUser(profile) and the effects of the render that follows: the
\* load effect reads the profile's item and sets data and isDataLoaded, the
\* save effect runs with the data and isDataLoaded of that render.
LoginAs(id, profiles) ==
  LET closure == [session EXCEPT !.currentUser = id, !.profiles = profiles]
      loaded == IF id \in DOMAIN session.localStorage
                  THEN parse(session.localStorage[id]) ELSE FreshData
      saved == saveUserData(closure, AppData(days, events, rectangles))
  IN  /\ days' = loaded.days
      /\ events' = loaded.events
      /\ rectangles' = loaded.rectangles
      /\ session' = [saved EXCEPT !.isDataLoaded = TRUE, !.pending = TRUE]
      /\ CanvasMounts

handleCreateProfile(id) ==
  /\ SelectorShown
  /\ id \notin session.profiles
  /\ LoginAs(id, session.profiles \cup {id})
  /\ ProfileStep("createProfile", id)

handleLogin(id) ==
  /\ SelectorShown
  /\ id \in session.profiles
  /\ LoginAs(id, session.profiles)
  /\ ProfileStep("login", id)

\* setCurrentUser(null); the load effect of the render sets isDataLoaded to
\* false and the save effect finds no current user.
handleLogout ==
  /\ BoardShown /\ ~isDayModalOpen /\ ~isEventModalOpen
  /\ session' = [saveUserData([session EXCEPT !.currentUser = NoString],
                              AppData(days, events, rectangles))
                   EXCEPT !.isDataLoaded = FALSE, !.pending = TRUE]
  /\ UNCHANGED <<days, events, rectangles>>
  /\ CanvasMounts
  /\ ProfileStep("logout", NoString)

handleDeleteProfile(id) ==
  /\ SelectorShown
  /\ id \in session.profiles
  /\ session' = [session EXCEPT !.profiles = @ \ {id},
                                !.localStorage = removeItem(@, id),
                                !.currentUser = IF @ = id THEN NoString ELSE @]
  /\ UNCHANGED <<days, events, rectangles, canvasVars, rendered>>
  /\ ProfileStep("deleteProfile", id)

\* The render that the effects asked for: data or isDataLoaded has changed,
\* so the save effect runs again.
Rerender ==
  /\ session.pending
  /\ session' = [saveUserData(session, AppData(days, events, rectangles))
                   EXCEPT !.pending = FALSE]
  /\ UNCHANGED <<days, events, rectangles, canvasVars, rendered>>
  /\ ProfileStep("render", NoString)

\* The App at its mount: no profile, no current user, the empty data.
InitProfiles ==
  /\ InitCanvas
  /\ store = "local"
  /\ days = NoDays
  /\ events = <<>>
  /\ session = NoSession

NextProfiles ==
  \/ \E id \in ProfileIds : handleCreateProfile(id)
  \/ \E id \in ProfileIds : handleLogin(id)
  \/ handleLogout
  \/ \E id \in ProfileIds : handleDeleteProfile(id)
  \/ Rerender
  \/ BoardShown /\ handleReset
  \/ \E rect \in ProfileRects :
       BoardShown /\ ~HasRect(rectangles, rect.id) /\ onAddRectangle(rect)
  \/ \E id \in RectIds : BoardShown /\ HasRect(rectangles, id) /\ onDeleteRectangle(id)

SpecProfiles == InitProfiles /\ [][NextProfiles]_vars

\* ----------------------------------------------------------------- store
\* The rectangle handlers of the remote owner as the canvas invokes them: a
\* rectangle added, reported at two positions (a move tick each, or the last
\* tick and the normalization) and deleted, a second one beside it, and the
\* store carrying out the calls awaited in any order, each without error.
StoreRects == RemoteRects \cup {Rect("r2", R(0), R(60), R(100), R(50), "")}

NextStore ==
  \/ \E rect \in StoreRects :
       RemoteBudget /\ ~HasRect(rectangles, rect.id) /\ onAddRectangle(rect)
  \/ \E rect \in StoreRects : RemoteBudget /\ onUpdateRectangle(rect)
  \/ \E id \in RectIds : RemoteBudget /\ onDeleteRectangle(id)
  \/ \E i \in 1..Len(inflight) : Settle(i, "ok")

SpecStore == InitRemote /\ [][NextStore]_vars

\* ------------------------------------------------------- moves and resizes
\* A board loaded with one rectangle: moves of it and resizes by every
\* handle, to several points and back, with a wheel zoom, a mode key or the
\* delete key at any moment of the gesture.
LoadedRect == Rect("r1", R(0), R(0), R(100), R(50), "")
MoveMaxZooms == 1
MoveMaxEdits == 2
MoveKeys == {"r", "Delete"}
MoveDeltas == {-4000}

InitMove ==
  /\ transformRef = InitialTransform
  /\ mode = "pan"
  /\ selectionRange = NULL
  /\ selectedRectId = NoString
  /\ editingTextId = NoString
  /\ currentRect = NULL
  /\ isDragging = FALSE
  /\ isSelecting = FALSE
  /\ isDrawingRect = FALSE
  /\ rectInteraction = NULL
  /\ lastPos = [x |-> 0, y |-> 0]
  /\ rectStartPos = [x |-> R(0), y |-> R(0)]
  /\ hasMoved = FALSE
  /\ selectionStartRef = NULL
  /\ rectangles = <<LoadedRect>>
  /\ isDayModalOpen = FALSE
  /\ isEventModalOpen = FALSE
  /\ rendered = Snapshot("pan", NULL, NoString, NoString, NULL, <<LoadedRect>>)
  /\ pointer = NoPointer
  /\ focus = "body"
  /\ emitted = <<>>
  /\ gesture = NoGesture
  /\ event = [type |-> "none", arg |-> NoString]
  /\ used = [zooms |-> 0, pans |-> 0, edits |-> 0]
  /\ cell = NULL
  /\ form = NoForm
  /\ alerted = <<>>
  /\ inflight = <<>>
  /\ remote = {}
  /\ selectedDate = NULL
  /\ store = "local"
  /\ days = DEFAULT_DAYS
  /\ events = DEFAULT_EVENTS
  /\ InitSession

MoveBudget == Within(MoveMaxZooms, 0, MoveMaxEdits, 0)

NextMove ==
  \/ \E dy \in MoveDeltas, p \in OnePoint :
       handleWheel(TRUE, 0, dy, p) /\ MoveBudget /\ Event("wheel", "ctrl")
  \/ \E id \in RectIds, h \in Handles \cup {NoString}, p \in FewPoints :
       handleRectPointerDown(id, h, p) /\ MoveBudget /\ Event("rectpointerdown", h)
  \/ \E p \in RectPoints : handlePointerMove(p) /\ MoveBudget /\ Event("pointermove", NoString)
  \/ Render /\ MoveBudget /\ Continuous
  \/ PointerUp /\ MoveBudget /\ Event("pointerup", NoString)
  \/ \E key \in MoveKeys : handleKeyDown(key) /\ MoveBudget /\ Event("keydown", key)

SpecMove == InitMove /\ [][NextMove]_vars

\* ------------------------------------------------------------ view frame
\* Every way of changing the view, on a board with a rectangle, at any
\* moment of a selection, a draw, a move or a label edit, in every mode.
FrameMaxZooms == 2
FrameMaxPans == 1
FrameMaxEdits == 1
FrameMaxRects == 2
FrameCell == <<6, 10>>

FrameBudget == Within(FrameMaxZooms, FrameMaxPans, FrameMaxEdits, FrameMaxRects)

NextFrame ==
  \/ \E dy \in FewWheelDeltas, p \in OnePoint :
       handleWheel(TRUE, 0, dy, p) /\ FrameBudget /\ Event("wheel", "ctrl")
  \/ \E dy \in PanDeltas \ {0}, p \in OnePoint :
       handleWheel(FALSE, 0, dy, p) /\ FrameBudget /\ Event("wheel", NoString)
  \/ zoomIn /\ FrameBudget /\ Event("zoomIn", NoString)
  \/ zoomOut /\ FrameBudget /\ Event("zoomOut", NoString)
  \/ resetView /\ FrameBudget /\ Event("resetView", NoString)
  \/ \E m \in Modes : setMode(m) /\ FrameBudget /\ Event("modeButton", m)
  \/ \E p \in OnePoint : CanvasPointerDown(p, 0) /\ FrameBudget /\ Event("pointerdown", NoString)
  \/ \E p \in OnePoint :
       /\ handleCellPointerDown(FrameCell, "cell", p, FALSE, 0) /\ FrameBudget
       /\ Event("cellpointerdown", NoString)
  \/ \E id \in RectIds, p \in OnePoint :
       handleRectPointerDown(id, NoString, p) /\ FrameBudget /\ Event("rectpointerdown", NoString)
  \/ \E p \in FewPoints : handlePointerMove(p) /\ FrameBudget /\ Event("pointermove", NoString)
  \/ Render /\ FrameBudget /\ Continuous
  \/ PointerUp /\ FrameBudget /\ Event("pointerup", NoString)
  \/ CellClick /\ FrameBudget /\ Event("click", "cell")
  \/ \E id \in RectIds : handleRectDoubleClick(id) /\ FrameBudget /\ Event("dblclick", NoString)
  \/ TextBlur /\ FrameBudget /\ Event("blur", NoString)
  \/ CloseDayModal /\ FrameBudget /\ Event("close", "day")

SpecFrame == InitMove /\ [][NextFrame]_vars

\* =============================================================== claims
\* The callbacks of a kind that the last step invoked.
Calls(cb) == {i \in 1..Len(emitted) : emitted[i].cb = cb}

\* The canvas point under the client point p with the transform t.
CanvasPointAt(t, p) ==
  [x |-> RDiv(RSub(R(p.x - ContainerLeft), t.x), t.scale),
   y |-> RDiv(RSub(R(p.y - ContainerTop), t.y), t.scale)]

\* C4: after a modified-wheel zoom at the pointer (px, py), whatever the
\* transform, the pointer and the delta, the canvas point that was under
\* (px, py) is under it again: (px - newX) / newScale = (px - oldX) / oldScale
\* and likewise for y, also when the new scale is clamped.
C4_ZoomKeepsPointUnderPointer ==
  [][\A dy \in WheelDeltas, p \in ViewPoints :
       handleWheel(TRUE, 0, dy, p) =>
         CanvasPointAt(transformRef', p) = CanvasPointAt(transformRef, p)]_vars

\* A zoom that was clamped at MAX_SCALE and moved the origin.
C4_Witness ==
  /\ event = [type |-> "wheel", arg |-> "ctrl"]
  /\ transformRef.scale = MAX_SCALE
  /\ transformRef.x # InitialTransform.x

\* C5: in every reachable state MIN_SCALE <= scale <= MAX_SCALE, after any
\* sequence of wheel zooms, zoom buttons, resets, pans and drags from the
\* initial transform.
C5_ScaleWithinBounds ==
  RLe(MIN_SCALE, transformRef.scale) /\ RLe(transformRef.scale, MAX_SCALE)

\* A wheel zoom has driven the scale down to MIN_SCALE.
C5_Witness ==
  /\ event = [type |-> "wheel", arg |-> "ctrl"]
  /\ transformRef.scale = MIN_SCALE

\* The date of a grid cell <<monthIndex, day>>.
DateOf(c) == formatDateISO(c[1], c[2])

\* The release that ends a marquee selection.
EndsSelection ==
  /\ isSelecting /\ selectionStartRef # NULL /\ selectionRange # NULL
  /\ pointer.down /\ ~pointer'.down

\* C1: at the pointer-up that ends a marquee selection exactly one branch is
\* taken from the selection's start and end dates: if they differ, the
\* range-select callback is invoked with (earlier, later) and the day-click
\* callback is not; if they are equal, the day-click callback is invoked
\* with that date and the range-select callback is not.
C1_OneBranchFromTheSelection ==
  [][EndsSelection =>
       IF selectionRange.start # selectionRange.end
         THEN /\ Calls("onDayClick")' = {}
              /\ Calls("onRangeSelect")' # {}
              /\ \A i \in Calls("onRangeSelect")' :
                   emitted'[i] = Did("onRangeSelect", selectionRange.start, selectionRange.end)
         ELSE /\ Calls("onRangeSelect")' = {}
              /\ Calls("onDayClick")' # {}
              /\ \A i \in Calls("onDayClick")' :
                   emitted'[i] = Did("onDayClick", selectionRange.start, NULL)]_vars

\* C2: after the pointer-up that ends any rectangle draw or resize, also one
\* that drove the width or the height negative, the rectangle the owner
\* holds has width >= 0 and height >= 0 (its x, y the top-left corner), for
\* every interleaving of the per-tick updates, the owner's application of
\* them and the pointer-up.
C2_NormalizedAfterRelease ==
  ~pointer.down =>
    \A i \in 1..Len(rectangles) :
      RLe(R(0), rectangles[i].width) /\ RLe(R(0), rectangles[i].height)

\* The release that ends a rectangle draw.
EndsDraw == isDrawingRect /\ currentRect # NULL /\ pointer.down /\ ~pointer'.down

\* Is a (width, height) above the minimum size of a committed rectangle?
AboveMinimum(w, h) == RLt(MinRectSize, RAbs(w)) /\ RLt(MinRectSize, RAbs(h))

\* C3: a draw whose normalized size does not exceed the minimum (width > 10
\* and height > 10 canvas units) invokes no add-rectangle callback, clears
\* the preview and leaves the mode as it is; every rectangle passed to the
\* add-rectangle callback has width > 10 and height > 10.
C3_SmallDrawsAreDiscarded ==
  [][EndsDraw =>
       /\ ~AboveMinimum(currentRect.width, currentRect.height) =>
            /\ Calls("onAddRectangle")' = {}
            /\ currentRect' = NULL
            /\ mode' = mode
       /\ \A i \in Calls("onAddRectangle")' :
            AboveMinimum(emitted'[i].a.width, emitted'[i].a.height)]_vars

\* A click on a day cell or an event chip reaches its handler.
ClickArrives == pointer.click.part \in {"cell", "chip"} /\ pointer'.click.part = "none"

\* C6: click versus drag is decided by the cumulative movement since the
\* pointer-down: in pan mode a press and release on a day cell or an event
\* chip emits the day-click or event-click callback only if the pointer's
\* total displacement since the press stayed within the pixel threshold,
\* however the movement was split across pointer-move events.
C6_ClickOnlyWithoutDisplacement ==
  [][(ClickArrives /\ mode = "pan" /\ gesture.strayed) =>
       (Calls("onDayClick")' = {} /\ Calls("onEventClick")' = {})]_vars

MinDate(a, b) == IF StrLt(b, a) THEN b ELSE a
MaxDate(a, b) == IF StrLt(a, b) THEN b ELSE a

\* The dates of the cell a marquee gesture was pressed on and of the cell
\* the pointer is over.
Anchor == DateOf(gesture.target.cell)
Entered == DateOf(pointer.over)

\* C7: range selection is order-independent: a marquee gesture that starts
\* on X and is released over Y commits (min(X, Y), max(X, Y)), the pair a
\* gesture from Y to X commits, and in every intermediate state the
\* highlighted range is [min(anchor, entered), max(anchor, entered)].
C7_SelectionIsOrderIndependent ==
  [][/\ (isSelecting /\ pointer.down) =>
          selectionRange = [start |-> MinDate(Anchor, Entered),
                            end |-> MaxDate(Anchor, Entered)]
     /\ (EndsSelection /\ Anchor # Entered) =>
          emitted' = <<Did("onRangeSelect", MinDate(Anchor, Entered),
                           MaxDate(Anchor, Entered))>>]_vars

\* The steps that may change the mode.
ModeKeyStep == \E key \in {"h", "v", "r"} : handleKeyDown(key)
ModeButtonStep == \E m \in Modes : setMode(m)
DrawCommitStep ==
  /\ PointerUp /\ isDrawingRect /\ mode = "rectangle"
  /\ Calls("onAddRectangle")' # {} /\ mode' = "pan"

\* C8: the mode is initially pan and changes only through a mode key (h, v,
\* r), a toolbar mode button, or the commit of a rectangle draw performed in
\* rectangle mode, which sets it to pan; no other pointer, wheel, selection,
\* rectangle, text or key step changes it.
C8_ModeChangesOnlyOnCommand ==
  /\ mode = "pan"
  /\ [][mode' # mode => (ModeKeyStep \/ ModeButtonStep \/ DrawCommitStep)]_vars

\* The commit of a draw has just switched the mode to pan and selected the
\* rectangle it added.
C8_Witness ==
  /\ event.type = "pointerup" /\ mode = "pan"
  /\ Calls("onAddRectangle") # {}
  /\ \A i \in Calls("onAddRectangle") : selectedRectId = emitted[i].a.id

\* A pointer-down over a grid cell with the shift key held has just been
\* handled, and what a press does when it begins a marquee selection
\* anchored at the pressed cell, and neither a pan nor a draw.
ShiftPressOnCell == event = [type |-> "cellpointerdown", arg |-> "shift"]
BeginsSelection ==
  /\ isSelecting /\ selectionStartRef = Anchor
  /\ selectionRange = [start |-> Anchor, end |-> Anchor]
  /\ ~isDragging /\ ~isDrawingRect

C10_KeysIgnoredInTextInputs ==
  [][(event'.type = "keydown" /\ focus \in {"input", "rectText"}) =>
       /\ mode' = mode
       /\ rectangles' = rectangles
       /\ Calls("onDeleteRectangle")' = {}]_vars

\* Delete was pressed in a field of the day modal while a rectangle was
\* selected, and the rectangle is still there.
C10_Witness ==
  /\ event = [type |-> "keydown", arg |-> "Delete"]
  /\ focus = "input"
  /\ selectedRectId # NoString
  /\ HasRect(rectangles, selectedRectId)

\* A click without drag reaches the handler of the pressed part of a cell,
\* in pan or in select mode.
PlainClickOn(part) ==
  /\ pointer.click.part = part /\ pointer'.click.part = "none"
  /\ ~gesture.strayed
  /\ mode \in {"pan", "select"}

\* The callbacks of the whole click: those of the release and those of the
\* click that follows it.
ClickCalls == emitted \o emitted'

\* C11: the three affordances of a cell are distinct.  In pan and in select
\* mode, whatever gestures came before, a click without drag on an event
\* chip invokes the event-click callback for that event exactly once and no
\* day-click; a click on the add-event card invokes only the add-event
\* callback; a click on the cell body invokes only the day-click callback.
C11_AffordancesAreDistinct ==
  [][/\ PlainClickOn("chip") =>
          /\ Len(ClickCalls) = 1
          /\ ClickCalls[1].cb = "onEventClick"
          /\ \E i \in 1..Len(getEventsForCell(DateOf(pointer.click.cell))) :
               getEventsForCell(DateOf(pointer.click.cell))[i].id = ClickCalls[1].a
     /\ PlainClickOn("add") =>
          /\ Len(ClickCalls) = 1
          /\ ClickCalls[1] = Did("onAddEventClick", DateOf(pointer.click.cell), NULL)
     /\ PlainClickOn("cell") =>
          /\ ClickCalls # <<>>
          /\ \A i \in 1..Len(ClickCalls) :
               ClickCalls[i] = Did("onDayClick", DateOf(pointer.click.cell), NULL)]_vars

\* The calendar day a YYYY-MM-DD string names, as a number that grows with
\* time: year, month and day read from their digits.
Digits(str, from, to) ==
  LET RECURSIVE Value(_)
      Value(k) == IF k < from THEN 0 ELSE 10 * Value(k - 1) + (str[k] - 48)
  IN Value(to)
Chronological(str) == Digits(str, 1, 4) * 10000 + Digits(str, 6, 7) * 100 + Digits(str, 9, 10)

\* The event's range holds the date, by the calendar.
Holds(evt, dateStr) ==
  /\ Chronological(evt.startDate) <= Chronological(dateStr)
  /\ Chronological(dateStr) <= Chronological(evt.endDate)

\* The rendered cell shows a chip for the event.
Lists(evt) == \E i \in 1..Len(cell.chips) : cell.chips[i] = evt

\* The scenario's event, 2026-03-05 to 2026-03-07, alone on the board.
ScenarioEvents == <<GridEvent(1, <<<<2, 5>>, <<2, 7>>>>)>>
ScenarioCells == {<<2, 5>>, <<2, 6>>, <<2, 7>>}

\* C12 as claimed: for every valid date d of the year and every event e, the
\* cell of d lists e exactly when e.startDate <= d <= e.endDate, the order
\* of the YYYY-MM-DD strings being the order of the calendar; the event
\* from 2026-03-05 to 2026-03-07 is listed by exactly the cells 03-05, 03-06
\* and 03-07.
C12_CellListsEventsInRange ==
  (cell # NULL /\ cell.interactive) =>
    /\ \A i \in 1..Len(events) : Lists(events[i]) <=> Holds(events[i], cell.dateStr)
    /\ events = ScenarioEvents =>
         (Lists(events[1]) <=> <<cell.monthIndex, cell.dayNum>> \in ScenarioCells)

\* C12 as the code has it: the events the cell of d looks up are exactly
\* those with e.startDate <= d <= e.endDate by the calendar; the cell lists
\* the first four of them in ascending order of start date and counts the
\* others; the scenario's event is listed by exactly its three cells.
C12_CellListsFirstEventsInRange ==
  (cell # NULL /\ cell.interactive) =>
    LET found == getEventsForCell(cell.dateStr)
        inRange == {i \in 1..Len(events) : Holds(events[i], cell.dateStr)}
    IN
    /\ \A i \in 1..Len(events) :
         (\E j \in 1..Len(found) : found[j] = events[i]) <=> i \in inRange
    /\ Len(found) = Cardinality(inRange)
    /\ Len(cell.chips) = IF Len(found) > MaxChips THEN MaxChips ELSE Len(found)
    /\ cell.more = Len(found) - Len(cell.chips)
    /\ \A j \in 1..Len(cell.chips) : Holds(cell.chips[j], cell.dateStr)
    /\ \A j, k \in 1..Len(cell.chips) :
         j < k => Chronological(cell.chips[j].startDate) <= Chronological(cell.chips[k].startDate)
    /\ \A i \in inRange : \A j \in 1..Len(cell.chips) :
         Lists(events[i]) \/ Chronological(cell.chips[j].startDate) <= Chronological(events[i].startDate)
    /\ events = ScenarioEvents =>
         (Lists(events[1]) <=> <<cell.monthIndex, cell.dayNum>> \in ScenarioCells)

\* The cell of 2026-03-05 with five events over that date: four chips and
\* one more counted.
C12_Witness ==
  /\ cell # NULL /\ cell.interactive
  /\ cell.dateStr = formatDateISO(2, 5)
  /\ Len(events) = 5 /\ Len(cell.chips) = 4 /\ cell.more = 1

\* The calendar of the year 2026, which is not a leap year.
CalendarLength == <<31, 28, 31, 30, 31, 30, 31, 31, 30, 31, 30, 31>>
CalendarPair(monthIndex, day) == day >= 1 /\ day <= CalendarLength[monthIndex + 1]
CalendarDates ==
  {formatDateISO(pair[1], pair[2]) :
     pair \in {q \in MonthIndexes \X DayColumns : CalendarPair(q[1], q[2])}}

\* getDaysInMonth and isValidDay against the calendar, for every month and
\* for the days 0 to 32.
CalendarAgrees ==
  \A monthIndex \in MonthIndexes :
    /\ getDaysInMonth(monthIndex) = CalendarLength[monthIndex + 1]
    /\ \A day \in 0..32 :
         isValidDay(monthIndex, day) <=> (1 <= day /\ day <= getDaysInMonth(monthIndex))

\* C13: for every month of 2026 getDaysInMonth is the month's calendar
\* length (28 for February, 30 or 31 otherwise) and isValidDay(m, d) holds
\* exactly for 1 <= d <= getDaysInMonth(m); in the 12x31 grid exactly the
\* valid pairs are interactive cells, and an invalid pair is an inert
\* placeholder: no callback carries its date, and no selection is anchored
\* at it or extended to it.
C13_GridFollowsCalendar ==
  /\ CalendarAgrees
  /\ cell # NULL => (cell.interactive <=> CalendarPair(cell.monthIndex, cell.dayNum))
  /\ selectionStartRef # NULL => selectionStartRef \in CalendarDates
  /\ selectionRange # NULL =>
       selectionRange.start \in CalendarDates /\ selectionRange.end \in CalendarDates
  /\ isSelecting => (cell.interactive /\ gesture.target.part = "cell")
  /\ \A i \in 1..Len(emitted) :
       /\ emitted[i].a \in CalendarDates
       /\ emitted[i].cb = "onRangeSelect" => emitted[i].b \in CalendarDates

\* In select mode the pointer is down on the placeholder of February 29: a
\* pan gesture of the container, and no selection.
C13_Witness ==
  /\ cell # NULL /\ cell.monthIndex = 1 /\ cell.dayNum = 29 /\ ~cell.interactive
  /\ mode = "select" /\ pointer.down /\ isDragging
  /\ ~isSelecting /\ selectionRange = NULL

\* The entries of every date but one are what they were.
OtherDaysKept(dateStr) ==
  /\ (DOMAIN days'.map) \ {dateStr} = (DOMAIN days.map) \ {dateStr}
  /\ \A k \in (DOMAIN days.map) \ {dateStr} : days'.map[k] = days.map[k]

\* C14: saving a day entry stores exactly that entry under its date, deleting
\* one removes its date, and either leaves the entries of all other dates,
\* the events and the rectangles as they were, under the local and the
\* remote owner alike.
C14_DayOperationsTouchOneDate ==
  [][/\ \A title \in DayTitles, mood \in Moods :
          handleSaveDay(title, mood) =>
            /\ selectedDate \in DOMAIN days'.map
            /\ days'.map[selectedDate] = DayEntry(selectedDate, title, mood)
            /\ OtherDaysKept(selectedDate)
            /\ events' = events /\ rectangles' = rectangles
     /\ handleDeleteDay =>
          /\ selectedDate \notin DOMAIN days'.map
          /\ OtherDaysKept(selectedDate)
          /\ events' = events /\ rectangles' = rectangles]_vars

\* A day was added to the two of the default data and another one deleted,
\* with the remote owner.
C14_Witness ==
  /\ store = "remote"
  /\ event.type = "deleteDay"
  /\ DOMAIN days.map = {formatDateISO(1, 14), formatDateISO(3, 14)}
  /\ events = DEFAULT_EVENTS

\* ----------------------------------------------------------------- C15
\* A file the claim calls malformed: not JSON, or `days` not a mapping, or
\* `events` not a sequence.
Malformed(payload) ==
  \/ payload.json # "object"
  \/ ~IsObject(payload.days.kind)
  \/ payload.events.kind # "array"

ErrorShown == alerted' # <<>> /\ \A i \in 1..Len(alerted') : alerted'[i] # ImportOk

\* C15: importing a malformed file shows an error and leaves the days, the
\* events and the rectangles in memory exactly as they were.
C15_MalformedImportIsRejected ==
  [][\A payload \in Payloads :
       (Malformed(payload) /\ handleImport(payload)) =>
         /\ ErrorShown
         /\ days' = days /\ events' = events /\ rectangles' = rectangles]_vars

\* ----------------------------------------------------------------- C16
\* A snapshot in the file format: an object whose `days` is an object, whose
\* `events` is an array and whose `rectangles` is an array or absent.
WellFormed(payload) ==
  /\ payload.json = "object"
  /\ IsObject(payload.days.kind)
  /\ payload.events.kind = "array"
  /\ payload.rectangles.kind \in {"array", "absent"}

\* C16: importing a well-formed snapshot makes the days, the events and the
\* rectangles in memory those of the snapshot, the rectangles empty when the
\* snapshot has none, and shows no error; the snapshot with all three empty
\* leaves an empty board.
C16_WellFormedImportReplacesData ==
  [][\A payload \in Payloads :
       (WellFormed(payload) /\ handleImport(payload)) =>
         /\ days' = payload.days
         /\ events' = payload.events.items
         /\ rectangles' = payload.rectangles.items
         /\ alerted' = <<ImportOk>>
         /\ (payload.days = NoDays /\ payload.events.items = <<>>
               /\ payload.rectangles.items = <<>>)
              => (days'.map = <<>> /\ events' = <<>> /\ rectangles' = <<>>)]_vars

\* ----------------------------------------------------------------- C17
\* A date of the fixed year, by the order of the date strings.
InFixedYear(dateStr) ==
  ~StrLt(dateStr, DateText(YEAR, 1, 1)) /\ ~StrLt(DateText(YEAR, 12, 31), dateStr)

\* The form as the claim wants it for a save: a title that is not blank, an
\* end not before the start, and both dates in the fixed year.
ValidForm ==
  /\ form.name \notin {"", " "}
  /\ ~StrLt(finalEndDate, form.startDate)
  /\ InFixedYear(form.startDate)
  /\ InFixedYear(finalEndDate)

\* C17: submitting the event form when the title is blank, the end date is
\* before the start date, or the start or the end date is outside the fixed
\* year sets an inline error, invokes no save, keeps the modal open and
\* leaves the events unchanged.
C17_SubmitSavesOnlyValidForms ==
  [][(handleSubmit /\ ~ValidForm) =>
       /\ form'.error # ""
       /\ isEventModalOpen'
       /\ events' = events
       /\ inflight' = inflight]_vars

\* ----------------------------------------------------------------- C18
Failures == {"error", "throws"}

\* The awaited call i of a day, event or rectangle handler fails in this step.
CallFails(i) ==
  /\ inflight[i].by # "handleReset"
  /\ \E outcome \in Failures : Settle(i, outcome)

\* C18: when the repository call of a day save or delete, an event save or
\* delete, or a rectangle add, update or delete fails, the days, the events
\* and the rectangles in memory stay as they are, optimistic change included,
\* and the call is not issued again.
C18_FailureKeepsOptimisticChange ==
  [][\A i \in 1..Len(inflight) :
       CallFails(i) =>
         /\ days' = days /\ events' = events /\ rectangles' = rectangles
         /\ Len(inflight') = Len(inflight) - 1]_vars

\* The save of a rectangle that was added has failed and the rectangle is
\* still there.
C18_Witness ==
  /\ event = [type |-> "settle", arg |-> "error"]
  /\ alerted = <<"Error: handleAddRectangle">>
  /\ HasRect(rectangles, "r1")
  /\ inflight = <<>>

\* ----------------------------------------------------------------- C19
\* C19: every failed repository call (day save or delete, event save or
\* delete, rectangle add, update or delete, reset of all data) is followed by
\* an error shown to the user.
C19_EveryFailureIsNotified ==
  [][\A i \in 1..Len(inflight) :
       (\E outcome \in Failures : Settle(i, outcome)) => alerted' # <<>>]_vars

\* ----------------------------------------------------------------- C20
\* What the call just issued changes is in the data in memory.
Applied(call) ==
  CASE call.op = "saveDay" -> call.date \in DOMAIN days'.map
    [] call.op = "deleteDay" -> call.date \notin DOMAIN days'.map
    [] call.op = "saveEvent" -> \E k \in 1..Len(events') : events'[k].id = call.id
    [] call.op = "deleteEvent" -> \A k \in 1..Len(events') : events'[k].id # call.id
    [] call.op = "saveRectangle" -> HasRect(rectangles', call.id)
    [] call.op = "deleteRectangle" -> ~HasRect(rectangles', call.id)
    [] call.op = "resetAllData" -> days'.map = <<>> /\ events' = <<>> /\ rectangles' = <<>>

\* C20: in the step that issues a repository call for a mutation, the data
\* in memory already has the mutation: none waits for the repository.
C20_MemoryChangesBeforeTheCall ==
  [][Len(inflight') > Len(inflight) => Applied(inflight'[Len(inflight')])]_vars

\* ----------------------------------------------------------------- C21
\* The release of the pointer while a marquee selection is in progress.
ReleaseWhileSelecting == isSelecting /\ pointer.down /\ ~pointer'.down

\* No selection is in progress and none is shown.
SelectionCleared ==
  /\ ~isSelecting
  /\ selectionStartRef = NULL
  /\ selectionRange = NULL
  /\ rendered.selectionRange = NULL

\* C21: the pointer-up that follows the start of a marquee selection clears
\* the selection state (range null, selecting flag and anchor reset, no cell
\* highlighted); from then on the pointer entering cells changes nothing of
\* it until a press on a cell starts a new selection; and a selection starts
\* only when none is in progress.
C21_SelectionClearedAtPointerUp ==
  /\ [](~pointer.down => SelectionCleared)
  /\ [][/\ ReleaseWhileSelecting => SelectionCleared'
        /\ (~isSelecting /\ ~isSelecting') =>
             (selectionRange' = selectionRange /\ selectionStartRef' = selectionStartRef)
        /\ (isSelecting' /\ selectionStartRef' # selectionStartRef) =>
             (~isSelecting /\ ~pointer.down /\ pointer'.down)]_vars

\* The release of a selection over several days has just committed the
\* range and left no selection behind.
C21_Witness ==
  /\ event.type = "pointerup"
  /\ Calls("onRangeSelect") # {}
  /\ SelectionCleared

\* ----------------------------------------------------------------- C22
\* The pointer-up that commits a rectangle draw: the add-rectangle callback
\* is invoked.
CommitsDraw == PointerUp /\ isDrawingRect /\ Calls("onAddRectangle")' # {}

SelectsTheNewRectangle ==
  /\ mode' = "pan"
  /\ \A i \in Calls("onAddRectangle")' : selectedRectId' = emitted'[i].a.id

\* C22 as claimed: whenever a rectangle draw is committed, the mode becomes
\* pan and the selected rectangle is the one passed to the add-rectangle
\* callback.
C22_CommitSelectsNewRectangle ==
  [][CommitsDraw => SelectsTheNewRectangle]_vars

\* C22 amended: when a rectangle draw is committed while the mode is still
\* rectangle, the mode becomes pan and the selected rectangle is the one
\* passed to the add-rectangle callback; when the mode was changed during
\* the draw, the commit leaves the mode and the selected rectangle alone.
C22_CommitInRectangleModeSelects ==
  [][CommitsDraw =>
       IF mode = "rectangle" THEN SelectsTheNewRectangle
       ELSE mode' = mode /\ selectedRectId' = selectedRectId]_vars

\* A draw was committed in rectangle mode: the mode is pan and the new
\* rectangle is selected.
C22_Witness ==
  /\ event.type = "pointerup" /\ mode = "pan"
  /\ Calls("onAddRectangle") # {}
  /\ selectedRectId # NoString
  /\ \A i \in Calls("onAddRectangle") : selectedRectId = emitted[i].a.id
  /\ HasRect(rectangles, selectedRectId)

\* ----------------------------------------------------------------- C23
\* A primary-button press on empty canvas (no cell, rectangle or handle).
EmptyCanvasPress ==
  /\ ~pointer.down /\ pointer'.down /\ pointer'.button = 0
  /\ gesture'.target.part = "canvas"

\* A pointer-move of the drag that follows a press on empty canvas.
EmptyCanvasDrag ==
  /\ pointer.down /\ pointer.button = 0
  /\ gesture.target.part = "canvas"
  /\ \E p \in MovePoints : handlePointerMove(p)

DrawBeginsAtPress ==
  /\ isDrawingRect'
  /\ rectStartPos' = CanvasPointAt(transformRef, gesture'.downPos)
  /\ transformRef' = transformRef

\* C23 as claimed: the mode governs a press on empty canvas: the drag that
\* follows changes the pan offset only if the mode is pan; in select mode it
\* leaves the transform unchanged; in rectangle mode the press begins a
\* rectangle draw at the canvas position of the press and the drag leaves
\* the transform unchanged.
C23_ModeGovernsEmptyCanvasPress ==
  [][/\ (EmptyCanvasPress /\ mode = "rectangle") => DrawBeginsAtPress
     /\ (EmptyCanvasPress /\ mode # "rectangle") => ~isDrawingRect'
     /\ (EmptyCanvasDrag /\ mode # "pan") => transformRef' = transformRef]_vars

\* What the code does in rectangle mode and in pan mode, without the
\* select-mode part of the claim.
C23_RectangleAndPanPress ==
  [][/\ (EmptyCanvasPress /\ mode = "rectangle") => DrawBeginsAtPress
     /\ (EmptyCanvasPress /\ mode # "rectangle") => ~isDrawingRect'
     /\ (EmptyCanvasDrag /\ mode = "rectangle" /\ isDrawingRect) =>
          transformRef' = transformRef]_vars

\* A drag on empty canvas in select mode that moved the view.
C23_SelectDragPans ==
  /\ pointer.down /\ gesture.target.part = "canvas" /\ gesture.kind = "pan"
  /\ mode = "select" /\ isDragging /\ ~isSelecting
  /\ transformRef # InitialTransform

\* ----------------------------------------------------------------- C24
\* A pointer-move to p received while a rectangle is being moved / resized.
MoveTick(p) ==
  /\ rectInteraction # NULL /\ rectInteraction.type = "move"
  /\ handlePointerMove(p)
ResizeTick(p) ==
  /\ rectInteraction # NULL /\ rectInteraction.type = "resize"
  /\ handlePointerMove(p)

\* The start of a move or resize captures the rectangle as the owner holds
\* it and the client position of the press.
CapturesAtDragStart ==
  (rectInteraction = NULL /\ rectInteraction' # NULL) =>
     /\ HasRect(rectangles, rectInteraction'.rectId)
     /\ rectInteraction'.initialRect = FindRect(rectangles, rectInteraction'.rectId)
     /\ rectInteraction'.startMouse = gesture'.downPos

\* What was captured stays as it is for the whole gesture.
CaptureIsKept ==
  (rectInteraction # NULL /\ rectInteraction' # NULL) => rectInteraction' = rectInteraction

\* C24: during a rectangle move every reported update has
\* x = x0 + (currentX - startX) / scale and y = y0 + (currentY - startY) / scale
\* (scale: the scale at the time of the pointer-move), with (x0, y0) and every
\* other field (id, width, height, color, text) as captured at the start of
\* the drag; it is a function of the current pointer position only, so a
\* pointer back at its start position reports the captured rectangle again.
C24_MoveAppliesDeltaToCapture ==
  [][/\ CapturesAtDragStart
     /\ CaptureIsKept
     /\ \A p \in RectPoints :
          MoveTick(p) =>
            LET i == rectInteraction.initialRect
                s == rectInteraction.startMouse
                scale == transformRef.scale
                dx == RDiv(R(p.x - s.x), scale)
                dy == RDiv(R(p.y - s.y), scale)
            IN  /\ Len(emitted') = 1 /\ emitted'[1].cb = "onUpdateRectangle"
                /\ emitted'[1].a.x = RAdd(i.x, dx)
                /\ emitted'[1].a.y = RAdd(i.y, dy)
                /\ [emitted'[1].a EXCEPT !.x = i.x, !.y = i.y] = i
                /\ p = s => emitted'[1].a = i]_vars

\* A move that went away, at another scale, and came back to where it
\* started: the update reports the rectangle captured at the press.
C24_Witness ==
  /\ event.type = "pointermove"
  /\ rectInteraction # NULL /\ rectInteraction.type = "move"
  /\ gesture.strayed
  /\ transformRef.scale # InitialTransform.scale
  /\ emitted = <<Did("onUpdateRectangle", rectInteraction.initialRect, NULL)>>
  /\ rectangles = <<rectInteraction.initialRect>>

\* ----------------------------------------------------------------- C25
\* The four edges of a rectangle in canvas space.
LeftOf(r) == r.x
TopOf(r) == r.y
RightOf(r) == RAdd(r.x, r.width)
BottomOf(r) == RAdd(r.y, r.height)

\* The edges the handle does not name are where they were at the press.
OppositeCornerStays(handle, i, r) ==
  /\ handle \in {"ne", "se"} => LeftOf(r) = LeftOf(i)
  /\ handle \in {"nw", "sw"} => RightOf(r) = RightOf(i)
  /\ handle \in {"sw", "se"} => TopOf(r) = TopOf(i)
  /\ handle \in {"nw", "ne"} => BottomOf(r) = BottomOf(i)

\* The edges the handle names follow the pointer.
NamedEdgesFollow(handle, i, r, dx, dy) ==
  /\ handle \in {"ne", "se"} => RightOf(r) = RAdd(RightOf(i), dx)
  /\ handle \in {"nw", "sw"} => LeftOf(r) = RAdd(LeftOf(i), dx)
  /\ handle \in {"sw", "se"} => BottomOf(r) = RAdd(BottomOf(i), dy)
  /\ handle \in {"nw", "ne"} => TopOf(r) = RAdd(TopOf(i), dy)

\* C25: during a resize by a corner handle (nw, ne, sw, se) only the edges
\* named by the handle move: on every move tick the reported rectangle has
\* the corner opposite to the handle at its canvas position of the press
\* (se keeps x and y, nw keeps x + width and y + height, ne keeps x and
\* y + height, sw keeps x + width and y), the named edges displaced by the
\* pointer delta over the scale, and every other field as captured.
C25_ResizeKeepsOppositeCorner ==
  [][\A p \in RectPoints :
       ResizeTick(p) =>
         LET i == rectInteraction.initialRect
             h == rectInteraction.handle
             dx == RDiv(R(p.x - rectInteraction.startMouse.x), transformRef.scale)
             dy == RDiv(R(p.y - rectInteraction.startMouse.y), transformRef.scale)
         IN  /\ h \in Handles
             /\ Len(emitted') = 1 /\ emitted'[1].cb = "onUpdateRectangle"
             /\ OppositeCornerStays(h, i, emitted'[1].a)
             /\ NamedEdgesFollow(h, i, emitted'[1].a, dx, dy)
             /\ [emitted'[1].a EXCEPT !.x = i.x, !.y = i.y,
                                     !.width = i.width, !.height = i.height] = i]_vars

\* A resize by the nw handle has moved the top-left corner, below the
\* bottom edge: the height went negative and the bottom-right corner is
\* where it was.
C25_Witness ==
  /\ event.type = "pointermove"
  /\ rectInteraction # NULL /\ rectInteraction.type = "resize"
  /\ rectInteraction.handle = "nw"
  /\ Len(emitted) = 1 /\ emitted[1].cb = "onUpdateRectangle"
  /\ emitted[1].a.x # rectInteraction.initialRect.x
  /\ RLt(emitted[1].a.height, R(0))
  /\ RightOf(emitted[1].a) = RightOf(rectInteraction.initialRect)
  /\ BottomOf(emitted[1].a) = BottomOf(rectInteraction.initialRect)
  /\ rectangles = <<emitted[1].a>>

\* ----------------------------------------------------------------- C26
\* The fields of a rectangle.
RectFields == {"id", "x", "y", "width", "height", "color", "text"}

\* C26: every pointer-move received while a rectangle move or resize is in
\* progress invokes the update-rectangle callback exactly once, with the
\* full recomputed rectangle (every field, the id of the rectangle being
\* moved), and on that tick the view is not panned, no selection is
\* extended and no draw preview changes; the gesture stays in progress.
C26_EveryTickReportsOnce ==
  [][(event'.type = "pointermove" /\ rectInteraction # NULL) =>
       /\ Len(emitted') = 1
       /\ emitted'[1].cb = "onUpdateRectangle"
       /\ DOMAIN emitted'[1].a = RectFields
       /\ emitted'[1].a.id = rectInteraction.rectId
       /\ transformRef' = transformRef
       /\ selectionRange' = selectionRange
       /\ currentRect' = currentRect
       /\ UNCHANGED <<lastPos, hasMoved, isDragging, isSelecting, isDrawingRect,
                      rectInteraction>>]_vars

\* The same, over every handler of the canvas, the tick told by what it does.
C26_EveryTickReportsOnceAnywhere ==
  [][\A p \in RectPoints :
       (rectInteraction # NULL /\ handlePointerMove(p)) =>
         /\ Len(emitted') = 1
         /\ emitted'[1].cb = "onUpdateRectangle"
         /\ DOMAIN emitted'[1].a = RectFields
         /\ emitted'[1].a.id = rectInteraction.rectId
         /\ transformRef' = transformRef
         /\ selectionRange' = selectionRange
         /\ currentRect' = currentRect]_vars

\* A second tick of the same gesture at the position of the press: the
\* update was invoked again, with the rectangle as captured.
C26_Witness ==
  /\ event.type = "pointermove"
  /\ rectInteraction # NULL /\ gesture.strayed
  /\ Len(emitted) = 1 /\ emitted[1].cb = "onUpdateRectangle"
  /\ emitted[1].a = rectInteraction.initialRect
  /\ rectInteraction.type = "resize"

\* ----------------------------------------------------------------- C27
\* A tick of a pan drag: the container's pointer-move outside a rectangle
\* gesture and a draw.
PanDragTick ==
  /\ event'.type = "pointermove"
  /\ isDragging /\ rectInteraction = NULL
  /\ ~(isDrawingRect /\ rendered.currentRect # NULL)

\* A step of one of the operations on the view, or any step that changes it.
ViewStep ==
  \/ event'.type \in {"wheel", "zoomIn", "zoomOut", "resetView"}
  \/ PanDragTick
  \/ transformRef' # transformRef

\* C27: a pan (pointer-drag tick or plain wheel), a modified-wheel zoom, the
\* zoom-in and zoom-out buttons and reset-view change only the transform
\* (and the drag's own lastPos / hasMoved): mode, selection range, selected
\* and edited rectangle ids, draw preview, rectangles, days and events are
\* unchanged, no owner callback is invoked and nothing is rendered again,
\* whatever the board holds and whatever gesture is in progress.
C27_ViewStepsChangeOnlyTransform ==
  [][ViewStep =>
       /\ UNCHANGED <<mode, selectionRange, selectedRectId, editingTextId, currentRect>>
       /\ UNCHANGED <<rectangles, days, events, isDayModalOpen, isEventModalOpen>>
       /\ UNCHANGED <<isDragging, isSelecting, isDrawingRect, rectInteraction,
                      rectStartPos, selectionStartRef>>
       /\ emitted' = <<>>
       /\ rendered' = rendered]_vars

\* The view was zoomed with the button in select mode while the selected
\* rectangle's label was being edited.
C27_Witness ==
  /\ event.type = "zoomIn"
  /\ transformRef.scale # InitialTransform.scale
  /\ mode = "select"
  /\ selectedRectId # NoString /\ editingTextId = selectedRectId
  /\ rectangles # <<>>

\* The view was panned by the wheel during a draw, its preview on screen.
C27_PanDuringDraw ==
  /\ event.type = "wheel" /\ event.arg = NoString
  /\ isDrawingRect /\ currentRect # NULL /\ rendered.currentRect # NULL
  /\ currentRect.width # R(0)

\* ----------------------------------------------------------------- C28
\* A primary-button press on the canvas, and what it landed on.
PressOn(parts) ==
  /\ ~pointer.down /\ pointer'.down /\ pointer'.button = 0
  /\ gesture'.target.part \in parts

\* C28 as claimed: a pointer-down on a rectangle's body makes that rectangle
\* the selected one, replacing any other; a pointer-down anywhere else on the
\* canvas (empty canvas, a day cell, a chip, the add-event card) leaves no
\* rectangle selected, in every mode.
C28_PressElsewhereClearsSelection ==
  [][/\ PressOn({"rect"}) => selectedRectId' = rectInteraction'.rectId
     /\ PressOn({"canvas", "cell", "chip", "add"}) => selectedRectId' = NoString]_vars

\* What the code does: a press on a rectangle selects it; a press on empty
\* canvas clears the selection in every mode; a press inside a day cell
\* clears it unless the cell takes the press as the start of a selection.
C28_PressOutsideCellsClearsSelection ==
  [][/\ PressOn({"rect"}) => selectedRectId' = rectInteraction'.rectId
     /\ PressOn({"canvas"}) => selectedRectId' = NoString
     /\ PressOn({"cell", "chip", "add"}) =>
          selectedRectId' = IF isSelecting' THEN selectedRectId ELSE NoString]_vars

\* A selection of days was started in select mode with a rectangle selected,
\* and the rectangle is selected still.
C28_SelectedThroughCellPress ==
  /\ event.type = "cellpointerdown" /\ event.arg = NoString
  /\ mode = "select" /\ isSelecting /\ pointer.button = 0
  /\ selectedRectId # NoString /\ HasRect(rectangles, selectedRectId)

\* ----------------------------------------------------------------- C29
DeleteKeys == {"Delete", "Backspace"}
DeleteKeyPress == \E key \in DeleteKeys : handleKeyDown(key)

InTextField == focus \in {"input", "rectText"}

\* A rectangle of the board is the selected one.
RectangleIsSelected == selectedRectId # NoString /\ HasRect(rectangles, selectedRectId)

\* C29 as claimed: a Delete or Backspace press invokes the delete-rectangle
\* callback, once and with the id of the selected rectangle, exactly when a
\* rectangle is selected, no label is being edited and the focus is not in
\* a text field, and then no rectangle is selected; otherwise, in particular
\* with no rectangle selected, it invokes no callback.
C29_DeleteKeyDeletesSelected ==
  [][DeleteKeyPress =>
       IF RectangleIsSelected /\ editingTextId = NoString /\ ~InTextField
         THEN /\ emitted' = <<Did("onDeleteRectangle", selectedRectId, NULL)>>
              /\ selectedRectId' = NoString
         ELSE emitted' = <<>>]_vars

\* What the code does: the same, with "a rectangle is selected" read as
\* "the selected id is set", whether or not the board still holds a
\* rectangle of that id.
C29_DeleteKeyDeletesSelectedId ==
  [][DeleteKeyPress =>
       IF selectedRectId # NoString /\ editingTextId = NoString /\ ~InTextField
         THEN /\ emitted' = <<Did("onDeleteRectangle", selectedRectId, NULL)>>
              /\ selectedRectId' = NoString
              /\ rectangles' = handleDeleteRectangle(rectangles, selectedRectId)
         ELSE emitted' = <<>> /\ UNCHANGED <<rectangles, selectedRectId>>]_vars

\* The delete callback was invoked by the key for a rectangle the board did
\* not hold.
C29_DeletesTwice ==
  /\ event.type = "keydown"
  /\ Calls("onDeleteRectangle") # {}
  /\ rectangles = <<>> /\ rendered.rectangles = <<>>

\* ----------------------------------------------------------------- C30
\* A rectangle draw, move or resize is in progress.
RectGestureInProgress == isDrawingRect \/ rectInteraction # NULL
Release == pointer.down /\ ~pointer'.down

\* C30: once a rectangle draw, move or resize has begun it stays in progress
\* until the next pointer-up: no other step (key press, Escape and the mode
\* keys included, mode change, wheel event, toolbar action, render) ends it,
\* replaces it by another gesture or drops what it captured at its start;
\* the pointer-up always ends it; and it is in progress only while the
\* button is held.
C30_GestureLastsUntilPointerUp ==
  /\ [](RectGestureInProgress => pointer.down)
  /\ [][(RectGestureInProgress /\ ~Release) =>
          /\ isDrawingRect' = isDrawingRect
          /\ rectInteraction' = rectInteraction
          /\ isDrawingRect => (currentRect' # NULL /\ rectStartPos' = rectStartPos)]_vars
  /\ [][(RectGestureInProgress /\ Release) =>
          (~RectGestureInProgress' /\ currentRect' = NULL)]_vars

\* A draw during which the mode was switched by a key went on, and the
\* pointer-up ended it by adding its rectangle, in select mode.
C30_Witness ==
  /\ event.type = "pointerup"
  /\ Calls("onAddRectangle") # {}
  /\ mode = "select"
  /\ ~RectGestureInProgress /\ currentRect = NULL

\* ----------------------------------------------------------------- C31
\* A press that is not on the rectangle whose label is being edited.
PressElsewhere ==
  /\ ~pointer.down /\ pointer'.down
  /\ editingTextId # NoString
  /\ gesture'.target.part = "rect" => rectInteraction'.rectId # editingTextId

EntersEdit == \A id \in RectIds : handleRectDoubleClick(id) => editingTextId' = id

ChangeReportsTextOnly ==
  \A id \in RectIds, text \in Texts :
    handleTextChange(id, text) =>
      /\ HasRect(rectangles, id)
      /\ emitted' = <<Did("onUpdateRectangle",
                          [FindRect(rectangles, id) EXCEPT !.text = text], NULL)>>

ExitsEdit ==
  /\ TextBlur => editingTextId' = NoString
  /\ PressElsewhere => editingTextId' = NoString

\* C31 as claimed: a double-click on a rectangle puts exactly that rectangle
\* in text-edit mode; while editing, each text change invokes the
\* update-rectangle callback with the rectangle as the owner holds it, only
\* its text different; losing focus, or a pointer-down anywhere else on the
\* canvas, exits text-edit mode; at most one rectangle is edited at a time.
C31_TextEditLifecycle ==
  /\ [](editingTextId \in RectIds \cup {NoString})
  /\ [][EntersEdit /\ ChangeReportsTextOnly /\ ExitsEdit]_vars

\* The parts separately.
C31_EntersAndBlurs ==
  [][EntersEdit /\ (TextBlur => editingTextId' = NoString)]_vars
C31_ChangeReportsTextOnly == [][ChangeReportsTextOnly]_vars
C31_PressElsewhereExits == [][PressElsewhere => editingTextId' = NoString]_vars

\* ----------------------------------------------------------------- C32
\* Where the owner's collection holds the event.
PlaceOf(evt) == CHOOSE i \in 1..Len(events) : events[i] = evt

\* C32: in every cell the events listed are in ascending order of start
\* date, those with the same start date in the order the owner's collection
\* has them, each of them an event of the collection as it is there; and
\* rendering the cells leaves the collection as it was, order included.
C32_CellEventsSortedAndCollectionKept ==
  /\ []((cell # NULL /\ cell.interactive) =>
          /\ \A j \in 1..Len(cell.chips) : \E i \in 1..Len(events) : events[i] = cell.chips[j]
          /\ \A j, k \in 1..Len(cell.chips) :
               j < k =>
                 /\ Chronological(cell.chips[j].startDate)
                      <= Chronological(cell.chips[k].startDate)
                 /\ cell.chips[j].startDate = cell.chips[k].startDate =>
                      PlaceOf(cell.chips[j]) < PlaceOf(cell.chips[k]))
  /\ [][events' = events]_vars

\* The cell of 2026-03-05 on a board whose second event starts before the
\* other two, which start on the same day: the cell lists the second first
\* and the other two in the collection's order, the collection unchanged.
C32_Witness ==
  /\ cell # NULL /\ cell.interactive
  /\ cell.dateStr = formatDateISO(2, 5)
  /\ Len(events) = 3 /\ Len(cell.chips) = 3
  /\ events[1].startDate = events[3].startDate
  /\ StrLt(events[2].startDate, events[1].startDate)
  /\ cell.chips = <<events[2], events[1], events[3]>>
\* ----------------------------------------------------------------- C33
InPalette(color) == \E i \in 1..Len(EVENT_COLORS) : EVENT_COLORS[i] = color

\* The colours the hash gives the categories, worked out by hand from the
\* JavaScript arithmetic: -865698022 for "travel", 3655441 for "work" and
\* 3088675940 for "abcdefg".
KnownColor(category) ==
  IF category = <<116, 114, 97, 118, 101, 108>> THEN "#8b5cf6"
  ELSE IF category = <<119, 111, 114, 107>> THEN "#f97316"
  ELSE IF category = <<97, 98, 99, 100, 101, 102, 103>> THEN "#06b6d4"
  ELSE NeutralColor

\* An event of the collection that the form saved: the loaded event has
\* another colour than the form gives its category.
SavedByForm(evt) == evt # DEFAULT_EVENTS[2]

\* C33: every event saved through the form has the colour of its trimmed
\* category only: the neutral colour when that is empty, and otherwise a
\* member of the palette of eight, the one at |hash| mod 8, where the shift
\* of the hash wraps as 32-bit arithmetic; two saved events of the same
\* category have the same colour.
C33_ColorIsFunctionOfCategory ==
  /\ [][\A id \in EventIds \cup {"evt_2"} :
         \A i \in 1..Len(events') :
           (handleSubmit /\ SubmitError = "" /\ events' # events /\ events'[i].id = id
            /\ (i > Len(events) \/ events[i] # events'[i])) =>
             /\ events'[i].category = trimText(form.category)
             /\ events'[i].color = KnownColor(events'[i].category)
             /\ (events'[i].category = <<>>) = (events'[i].color = NeutralColor)
             /\ events'[i].category # <<>> => InPalette(events'[i].color)]_vars
  /\ [](\A i, j \in 1..Len(events) :
          (SavedByForm(events[i]) /\ SavedByForm(events[j])
           /\ events[i].category = events[j].category) =>
            events[i].color = events[j].color)
  /\ [](\A category \in Categories :
          /\ PaletteIndex(HashOf(category)) \in 0..7
          /\ InPalette(stringToColor(category)))

\* Two events saved with the category "abcdefg", whose hash is beyond 32
\* bits, one of them typed with blanks nowhere and the loaded one edited.
C33_Witness ==
  /\ Len(events) = 2
  /\ events[1].category = <<97, 98, 99, 100, 101, 102, 103>>
  /\ events[2].category = events[1].category
  /\ events[1].color = "#06b6d4" /\ events[2].color = "#06b6d4"
  /\ HashOf(events[1].category) = <<47129, 29796>>
  /\ HashOf(<<116, 114, 97, 118, 101, 108>>) = <<-13210, 32538>>

\* An event saved with a category of blanks has the neutral colour and an
\* empty category.
C33_BlankCategory ==
  /\ Len(events) = 2
  /\ events[2].category = <<>> /\ events[2].color = NeutralColor
  /\ form.category = <<32, 32>>
\* ----------------------------------------------------------------- C34
\* No call of a rectangle handler is awaited.
RectangleCallsCompleted ==
  \A i \in 1..Len(inflight) : inflight[i].op \notin {"saveRectangle", "deleteRectangle"}

InMemory == {rectangles[i] : i \in 1..Len(rectangles)}

\* C34: with the remote store, once every call issued for the rectangles has
\* completed without error, the rows of the remote table are the rectangles
\* in memory, in whatever order the store carried out the calls that were
\* in flight together.
C34_RemoteEqualsMemoryWhenSettled ==
  (store = "remote" /\ RectangleCallsCompleted) => remote = InMemory

\* Two reports of the rectangle were in flight together and have completed.
C34_BothCompleted ==
  /\ Len(inflight) = 0 /\ Len(rectangles) = 1 /\ remote = InMemory
  /\ event.type = "settle" /\ rectangles[1].x = R(10)
\* ----------------------------------------------------------------- C35
\* The last step invoked update-rectangle for a rectangle that is not on the
\* board (an update neither adds nor removes one).  The board of this
\* specification is loaded with its one rectangle and none is added, so that
\* the rectangle is absent exactly when the delete callback has been invoked
\* for it.
UpdatesDeleted ==
  \E i \in 1..Len(emitted) :
    /\ emitted[i].cb = "onUpdateRectangle"
    /\ ~HasRect(rectangles, emitted[i].a.id)

\* C35: after the delete-rectangle callback has been invoked for an id the
\* canvas never invokes update-rectangle for that id again, also when the
\* Delete key is pressed during a move or resize.
C35_NoUpdateAfterDelete == ~UpdatesDeleted

\* The rectangle has been deleted by the Delete key during its move.
C35_DeletedDuringMove ==
  /\ rectangles = <<>> /\ rectInteraction # NULL /\ pointer.down
  /\ event.type = "keydown" /\ event.arg = "Delete"
  /\ emitted = <<Did("onDeleteRectangle", "r1", NULL)>>
\* The owner's side of it: the stored rectangle has been deleted and then
\* updated, the two calls being awaited.
C35_UpdateFollowsDelete ==
  /\ store = "remote" /\ Len(inflight) = 2
  /\ inflight[1].op = "deleteRectangle" /\ inflight[1].id = "r1"
  /\ inflight[2].by = "handleUpdateRectangle" /\ inflight[2].id = "r1"
  /\ ~HasRect(rectangles, "r1")
  /\ \E row \in remote : row.id = "r1"

\* The rectangle is not in memory, every call has completed without error,
\* and an update has left its row in the remote table.
C35_DeletedRowRestored ==
  /\ store = "remote" /\ inflight = <<>>
  /\ ~HasRect(rectangles, "r1")
  /\ \E row \in remote : row.id = "r1"

\* In the owner's memory an update never brings a rectangle back.
C35_UpdateKeepsMemory ==
  [][\A rect \in StoreRects :
       (onUpdateRectangle(rect) /\ ~HasRect(rectangles, rect.id)) =>
         rectangles' = rectangles]_vars
\* ----------------------------------------------------------------- C36
RefersToRectangle(id) == id = NoString \/ HasRect(rectangles, id)

\* C36: in every reachable state the selected rectangle id and the id of the
\* rectangle in text edit are each null or the id of a rectangle of the
\* collection.
C36_IdsReferToRectangles ==
  RefersToRectangle(selectedRectId) /\ RefersToRectangle(editingTextId)

\* The part for the rectangle in text edit alone.
C36_EditedRectangleExists == RefersToRectangle(editingTextId)
\* ----------------------------------------------------------------- C37
DayClicks(calls) == Len(SelectSeq(calls, LAMBDA c : c.cb = "onDayClick"))

\* The click that ends a gesture follows its pointer-up at once: the calls
\* of the gesture are those of the two steps.
ClickAfterRelease == event.type = "pointerup" /\ event'.type = "click"

\* C37: a pointer-down and pointer-up on a day cell invoke day-click at most
\* once: the single-cell selection that the global pointer-up reports is not
\* reported again by the click handler of the cell, in select mode and with
\* the shift key.
C37_DayClickOncePerGesture ==
  [][ClickAfterRelease => DayClicks(emitted) + DayClicks(emitted') <= 1]_vars

\* No single step invokes day-click twice.
C37_DayClickOncePerStep == DayClicks(emitted) <= 1
\* ----------------------------------------------------------------- C38
\* The primary button goes down: a gesture starts that may end in a click.
GestureStarts == ~pointer.down /\ pointer'.down /\ pointer'.button = 0

\* C38: the moved flag is reset at the start of every gesture, so that the
\* suppression of a click depends on the movement of its own gesture only
\* and never on an earlier one.
C38_MovedFlagResetAtPress == [][GestureStarts => ~hasMoved']_vars

\* A press that reaches the container in pan or select mode resets the flag.
C38_PanPressResets ==
  [][(GestureStarts /\ isDragging') => ~hasMoved']_vars

\* In select mode the click of a press and release on a cell is suppressed
\* by the flag that an earlier gesture left.
C38_ClickSuppressedByEarlierPan ==
  /\ event.type = "click" /\ event.arg = "cell"
  /\ emitted = <<>> /\ hasMoved /\ ~isDayModalOpen
  /\ mode = "select" /\ selectionRange = NULL
\* ----------------------------------------------------------------- C40
\* The gestures in progress, by the refs that hold them.
GesturesInProgress ==
  {g \in {"pan", "select", "draw", "rect"} :
     \/ g = "pan" /\ isDragging
     \/ g = "select" /\ isSelecting
     \/ g = "draw" /\ isDrawingRect
     \/ g = "rect" /\ rectInteraction # NULL}

Idle == GesturesInProgress = {} /\ currentRect = NULL

\* A pointer-move with no button pressed.
HoverMove ==
  /\ ~pointer.down
  /\ \/ \E p \in MovePoints : handlePointerMove(p)
     \/ \E c \in TwoCells : handleCellPointerEnter(c)

\* C40: with a single pointer the canvas is idle after every pointer-up (no
\* pan drag, selection, draw, move or resize in progress and no preview), a
\* pointer-move with no button pressed changes neither the transform, the
\* selection nor a rectangle, and at most one gesture is in progress at any
\* time.
C40_IdleAfterPointerUp ==
  /\ []((event.type = "pointerup") => Idle)
  /\ [][HoverMove =>
          /\ transformRef' = transformRef
          /\ selectionRange' = selectionRange
          /\ rectangles' = rectangles]_vars
  /\ [](Cardinality(GesturesInProgress) <= 1)

\* The parts of it, each alone.
C40_IdleAfterRelease == (event.type = "pointerup") => Idle
C40_HoverChangesNothing ==
  [][HoverMove =>
       /\ transformRef' = transformRef
       /\ selectionRange' = selectionRange
       /\ rectangles' = rectangles]_vars
C40_OneGestureAtATime == Cardinality(GesturesInProgress) <= 1
\* A pan drag that moved the view has been released.
C40_Witness ==
  /\ event.type = "pointerup" /\ Idle /\ hasMoved /\ ~pointer.down
  /\ transformRef.scale = InitialTransform.scale
  /\ transformRef.x # InitialTransform.x

\* A move or resize, a draw and a selection have each been released.
C40_RectReleased ==
  /\ event.type = "pointerup" /\ Idle
  /\ Len(emitted) = 1 /\ emitted[1].cb = "onUpdateRectangle"
C40_SelectionReleased ==
  /\ event.type = "pointerup" /\ Idle
  /\ Len(emitted) = 1 /\ emitted[1].cb = "onRangeSelect"
\* ----------------------------------------------------------------- C39
\* The item stored under a profile's key: none, or one text.
Item(storage, id) == IF id \in DOMAIN storage THEN <<storage[id]>> ELSE <<>>

\* The step changes what is stored under the profile's key.
StoredDataChanges(id) ==
  Item(session'.localStorage, id) # Item(session.localStorage, id)

\* The profile is the current user and its data has been loaded.
CurrentAndLoaded(id) == session.currentUser = id /\ session.isDataLoaded

\* The step writes the profile's own data under its key: the data in memory
\* after the step, where the data in memory before it was what the key held,
\* or, for a profile that had nothing stored, the data of a fresh profile.
WritesOwnData(id) ==
  /\ session'.currentUser = id
  /\ Item(session'.localStorage, id) = <<stringify(AppData(days', events', rectangles'))>>
  /\ IF id \in DOMAIN session.localStorage
       THEN session.localStorage[id] = stringify(AppData(days, events, rectangles))
       ELSE AppData(days', events', rectangles') = FreshData

\* The step deletes the profile and removes its item.
DeletesProfile(id) ==
  /\ id \in session.profiles /\ id \notin session'.profiles
  /\ id \notin DOMAIN session'.localStorage

\* C39 as stated: what is stored under a profile's key is that profile's own
\* data, and it changes only while the profile is the current user and its
\* data has been loaded.
C39_StoredDataChangesOnlyWhenLoaded ==
  [][\A id \in ProfileIds :
       StoredDataChanges(id) => (CurrentAndLoaded(id) /\ WritesOwnData(id))]_vars

\* C39 as the code has it: what is stored under a profile's key is that
\* profile's own data; it changes while the profile is the current user
\* and its data has been loaded, and it is removed when the profile is
\* deleted, which happens while no profile is the current user.  While the
\* board of a profile is shown, its key holds the data in memory.
C39_StoredDataIsOwnData ==
  /\ [][\A id \in ProfileIds :
         StoredDataChanges(id) =>
           \/ CurrentAndLoaded(id) /\ WritesOwnData(id)
           \/ DeletesProfile(id) /\ session.currentUser = NoString]_vars
  /\ [](BoardShown =>
          Item(session.localStorage, session.currentUser)
            = <<stringify(AppData(days, events, rectangles))>>)

\* "B" is logged in after "A" was: each key holds its profile's own data,
\* and the two differ.
C39_Witness ==
  /\ BoardShown /\ session.currentUser = "B"
  /\ DOMAIN session.localStorage = {"A", "B"}
  /\ parse(session.localStorage["A"]).rectangles # <<>>
  /\ parse(session.localStorage["B"]).rectangles = <<>>
  /\ parse(session.localStorage["B"]).events = <<>>
  /\ rectangles = <<>> /\ events = <<>>

\* A profile with stored data has been deleted from the selector.
C39_ProfileDeleted ==
  /\ event.type = "deleteProfile" /\ event.arg = "A"
  /\ session.currentUser = NoString
  /\ "A" \notin DOMAIN session.localStorage
  /\ "B" \in DOMAIN session.localStorage

====
